---- MODULE Spec2Model ----
(***************************************************************************)
(* Model of the opening classifier of eco_fen_bot.js: the tokenizer,       *)
(* catalogue loading and indexing, move replay, the candidate scorer       *)
(* bestEntryForFen, the path builder buildOpeningPathFromRaw, the sequence *)
(* matcher bestSequenceMatchForTokens, the sequence classifier             *)
(* analyzeBySequence, the walk-up classifier analyzeByFen, and the pattern *)
(* override of the specification's section 4.6.                            *)
(*                                                                         *)
(* Strings the code inspects character by character (opening names, ECO    *)
(* codes, path fragments) are sequences of one-character strings; move     *)
(* tokens, which the code only compares and looks up, are TLA+ strings.    *)
(* The chess.js board is an abstract board with one piece that can move    *)
(* out and back (Nf3 / Ng1) and one pawn that can be pushed once (a2a3),   *)
(* which is enough for illegal moves, transpositions and repeated          *)
(* positions to occur, and with White's pushes d4 and c4 and bishop move   *)
(* Bf4 for the games of the pattern override.                              *)
(***************************************************************************)
EXTENDS Integers, Sequences, FiniteSets, TLC

\* ------------------------------------------------------------------ bounds
\* Longest input game, in tokens.
MaxPlies == 3
\* Largest catalogue, in records.
MaxEntries == 2
\* Longest raw name given to the path builder on its own.
MaxNameLen == 5

\* ------------------------------------------------------------ basic values
\* JS null / undefined for a ply number (ply numbers start at 1).
NoPly == 0
\* JS null / undefined / '' for a text value; a fragment is never empty.
NoText == << >>
\* JS null for an object.
Null == [kind |-> "null"]
\* Denominator of the rational orderless thresholds: t stands for t / ThrDen.
ThrDen == 2

\* -------------------------------------------------------------------- state
VARIABLES
  OPENINGS,        \* the catalogue list, with the derived fields of each entry
  FEN_TO_ENTRIES,  \* the position index: canonical key -> list of (ent, ply)
  tokens,          \* analyzeByFen: the tokens of the input text
  max_plies,       \* analyzeByFen: the ply limit
  requireFenOnly,  \* analyzeByFen: position-only mode
  opts,            \* analyzeByFen: prefer_set_matches, orderless_threshold, orderless_matching
  pc,              \* analyzeByFen: the loop the call is in
  board,           \* analyzeByFen: the running board of the replay
  fenPerPly,       \* analyzeByFen: the ply records
  per_ply,         \* analyzeByFen: the per-ply report
  ri,              \* analyzeByFen: the ply the anchor scan looks at next
  entryChoice,     \* analyzeByFen: the scorer's answer at the anchor, with the anchor ply
  p,               \* analyzeByFen: the ply the walk-up visits next
  pathList,        \* analyzeByFen: the raw names the walk-up collected
  per_level,       \* analyzeByFen: the walk-up's level records
  result,          \* analyzeByFen: the returned object
  call,            \* the latest call of bestEntryForFen: arguments and answer
  pbRawName,       \* path builder on its own: the raw name
  pbFirstToken,    \* path builder on its own: the first token
  pbPath,          \* path builder on its own: the returned list
  pgnText,         \* a query on a text: the text, as its whitespace-separated pieces
  seqResult,       \* a query on a text: the object analyzeBySequence returns
  seqAnswer,       \* bestSequenceMatchForTokens on its own: the returned entry
  ecoSource,       \* the loader on its own: the state of the catalogue file
  loadStatus       \* the loader on its own: not called, returned or thrown

analysisVars == << tokens, max_plies, requireFenOnly, opts, pc, board, fenPerPly,
                   per_ply, ri, entryChoice, p, pathList, per_level, result, call >>
catalogueVars == << OPENINGS, FEN_TO_ENTRIES >>
pathVars == << pbRawName, pbFirstToken, pbPath >>
queryVars == << pgnText, seqResult, seqAnswer >>
loaderVars == << ecoSource, loadStatus >>
vars == << OPENINGS, FEN_TO_ENTRIES, tokens, max_plies, requireFenOnly, opts, pc, board,
           fenPerPly, per_ply, ri, entryChoice, p, pathList, per_level, result, call,
           pbRawName, pbFirstToken, pbPath, pgnText, seqResult, seqAnswer,
           ecoSource, loadStatus >>

Min(a, b) == IF a <= b THEN a ELSE b
Max(a, b) == IF a >= b THEN a ELSE b

\* Array.prototype.includes
Includes(seq, x) == \E i \in 1..Len(seq) : seq[i] = x

\* The move tokens of the model: two SAN knight moves and one coordinate move.
Tokens == {"Nf3", "Ng1", "a2a3"}

\* String.prototype.toLowerCase on the move tokens.
ToLowerCase(tok) ==
  CASE tok = "Nf3" -> "nf3"
    [] tok = "Ng1" -> "ng1"
    [] tok = "Bf4" -> "bf4"
    [] OTHER -> tok

\* POPULAR_FIRST_MOVES, first label of each list, one letter per label:
\* K = "King's Pawn Game", Q = "Queen's Pawn Game", E = "English Opening",
\* R = "Reti Opening", B = "Bird's Opening", F = "King's Fianchetto ...",
\* L = "Larsen's Opening", W = "Ware Opening".
POPULAR_FIRST_MOVES ==
  [e4 |-> <<"K">>, d4 |-> <<"Q">>, c4 |-> <<"E">>, nf3 |-> <<"R">>,
   f4 |-> <<"B">>, g3 |-> <<"F">>, b3 |-> <<"L">>, a4 |-> <<"W">>]

\* --------------------------------------------------------- text operations
IsSpace(c) == c = " "

RECURSIVE TrimLeft(_)
TrimLeft(s) ==
  IF s # << >> /\ IsSpace(Head(s)) THEN TrimLeft(Tail(s)) ELSE s

RECURSIVE TrimRight(_)
TrimRight(s) ==
  IF s # << >> /\ IsSpace(s[Len(s)]) THEN TrimRight(SubSeq(s, 1, Len(s) - 1)) ELSE s

\* String.prototype.trim
Trim(s) == TrimRight(TrimLeft(s))

\* Index of the first occurrence of character c in s at or after from, 0 if none.
RECURSIVE IndexOf(_, _, _)
IndexOf(s, c, from) ==
  IF from > Len(s) THEN 0
  ELSE IF s[from] = c THEN from
  ELSE IndexOf(s, c, from + 1)

\* Number of occurrences of character c: (name.match(/c/g) || []).length
RECURSIVE CountChar(_, _)
CountChar(s, c) ==
  IF s = << >> THEN 0
  ELSE (IF Head(s) = c THEN 1 ELSE 0) + CountChar(Tail(s), c)

\* String.prototype.split(sep) for a one-character separator, no limit.
RECURSIVE Split(_, _)
Split(s, sep) ==
  LET i == IndexOf(s, sep, 1)
  IN IF i = 0 THEN << s >>
     ELSE << SubSeq(s, 1, i - 1) >> \o Split(SubSeq(s, i + 1, Len(s)), sep)

\* String.prototype.split(sep, limit): the pieces of the full split, cut to
\* the first limit pieces.
SplitLimit(s, sep, limit) ==
  LET all == Split(s, sep)
  IN SubSeq(all, 1, Min(limit, Len(all)))

\* after.replace(/\([^)]*\)/g, ' ')
RECURSIVE RemoveParens(_)
RemoveParens(s) ==
  LET i == IndexOf(s, "(", 1)
      j == IF i = 0 THEN 0 ELSE IndexOf(s, ")", i + 1)
  IN IF i = 0 \/ j = 0 THEN s
     ELSE SubSeq(s, 1, i - 1) \o << " " >> \o RemoveParens(SubSeq(s, j + 1, Len(s)))

\* after.replace(/\.\.\./g, ' ')
RECURSIVE RemoveEllipsis(_)
RemoveEllipsis(s) ==
  IF Len(s) < 3 THEN s
  ELSE IF s[1] = "." /\ s[2] = "." /\ s[3] = "."
       THEN << " " >> \o RemoveEllipsis(SubSeq(s, 4, Len(s)))
       ELSE << s[1] >> \o RemoveEllipsis(Tail(s))

\* after.replace(/\s+/g, ' ')
RECURSIVE CollapseSpaces(_)
CollapseSpaces(s) ==
  IF s = << >> THEN s
  ELSE IF IsSpace(Head(s))
       THEN << " " >> \o CollapseSpaces(TrimLeft(s))
       ELSE << Head(s) >> \o CollapseSpaces(Tail(s))

\* The cleaning of the text after the colon. The two move-annotation patterns
\* (a move number followed by a move, and MOVE_TOKEN_RE) need a digit or the
\* letter O, which the names of the model do not hold; they match nothing.
CleanAfter(afterColon) ==
  Trim(CollapseSpaces(RemoveEllipsis(RemoveParens(afterColon))))

\* for (const p of parts) if (p && !path.includes(p)) path.push(p)
RECURSIVE PushAllNew(_, _)
PushAllNew(acc, parts) ==
  IF parts = << >> THEN acc
  ELSE LET part == Head(parts)
       IN PushAllNew(IF part # << >> /\ ~Includes(acc, part) THEN Append(acc, part) ELSE acc,
                     Tail(parts))

\* text.split(',').map(p => p.trim()).filter(Boolean)
RECURSIVE TrimAll(_)
TrimAll(parts) ==
  IF parts = << >> THEN << >>
  ELSE LET part == Trim(Head(parts))
       IN (IF part # << >> THEN << part >> ELSE << >>) \o TrimAll(Tail(parts))

CommaParts(text) == TrimAll(Split(text, ","))

specificityScore(name) ==
  IF name = NoText THEN 0
  ELSE CountChar(name, ":") * 50 + CountChar(name, ",") * 5 + Len(name)

\* The first label of the popular-first-move table for a first token, NoText
\* when the token is null or has no entry.
CanonLabel(first) ==
  IF first = "" THEN NoText
  ELSE LET k == ToLowerCase(first)
       IN IF k \in DOMAIN POPULAR_FIRST_MOVES THEN POPULAR_FIRST_MOVES[k] ELSE NoText

\* The colon branch and the plain branch of buildOpeningPathFromRaw.
NamePath(s) ==
  IF Includes(s, ":")
  THEN LET pieces == SplitLimit(s, ":", 2)
           before == Trim(pieces[1])
           after  == CleanAfter(pieces[2])
           p1     == IF after # << >> THEN PushAllNew(<< >>, CommaParts(after)) ELSE << >>
       IN IF before # << >> THEN PushAllNew(p1, CommaParts(before)) ELSE p1
  ELSE PushAllNew(<< >>, CommaParts(s))

buildOpeningPathFromRaw(raw, first) ==
  LET s     == Trim(raw)
      path1 == NamePath(s)
      canon == CanonLabel(first)
      path2 == IF canon # NoText /\ ~Includes(path1, canon) THEN Append(path1, canon) ELSE path1
  IN PushAllNew(<< >>, path2)

\* ---------------------------------------------------------------- tokenizer
\* A text is the list of its whitespace-separated pieces (movesPart.split),
\* after the tag-pair lines are dropped; a piece is a list of atoms: a digit,
\* a dot, a brace, a parenthesis, or a run of other characters such as a move.
Digits == {"1", "2"}

\* ['1-0', '0-1', '1/2-1/2', '*']
Outcomes == {<<"1-0">>, <<"0-1">>, <<"1/2-1/2">>, <<"*">>}

\* t.startsWith(c)
StartsWith(t, c) == t # << >> /\ t[1] = c

\* The number of leading atoms of t that are in S, at most limit.
RECURSIVE LeadingIn(_, _, _)
LeadingIn(t, S, limit) ==
  IF t = << >> \/ limit = 0 THEN 0
  ELSE IF t[1] \in S THEN 1 + LeadingIn(Tail(t), S, limit - 1)
  ELSE 0

\* t.replace(/^\d+\.{1,3}/, ''): digits, then one to three dots.
StripMoveNumber(t) ==
  LET d    == LeadingIn(t, Digits, Len(t))
      dots == LeadingIn(SubSeq(t, d + 1, Len(t)), {"."}, 3)
  IN IF d > 0 /\ dots > 0 THEN SubSeq(t, d + dots + 1, Len(t)) ELSE t

\* while (i < rawTokens.length && !rawTokens[i].includes(c)) i++
RECURSIVE SkipUntil(_, _, _)
SkipUntil(rawTokens, i, c) ==
  IF i <= Len(rawTokens) /\ ~Includes(rawTokens[i], c)
  THEN SkipUntil(rawTokens, i + 1, c)
  ELSE i

\* The text of a token: its atoms joined.
RECURSIVE Join(_)
Join(t) == IF t = << >> THEN "" ELSE t[1] \o Join(Tail(t))

\* The while loop of tokenizePgnMoves, i counting from 1.
RECURSIVE TokenLoop(_, _, _)
TokenLoop(rawTokens, i, toks) ==
  IF i > Len(rawTokens) THEN toks
  ELSE LET t == rawTokens[i]
       IN IF StartsWith(t, "{") THEN TokenLoop(rawTokens, SkipUntil(rawTokens, i, "}") + 1, toks)
          ELSE IF StartsWith(t, "(") THEN TokenLoop(rawTokens, SkipUntil(rawTokens, i, ")") + 1, toks)
          ELSE IF t \in Outcomes THEN TokenLoop(rawTokens, i + 1, toks)
          ELSE IF StripMoveNumber(t) # << >>
          THEN TokenLoop(rawTokens, i + 1, Append(toks, Join(StripMoveNumber(t))))
          ELSE IF i + 1 > Len(rawTokens) THEN toks
          ELSE LET cleaned == StripMoveNumber(rawTokens[i + 1])
               IN TokenLoop(rawTokens, i + 2,
                            IF cleaned # << >> THEN Append(toks, Join(cleaned)) ELSE toks)

\* tokenizePgnMoves on the pieces of a text.
tokenizePgnMoves(rawTokens) == TokenLoop(rawTokens, 1, << >>)

\* ------------------------------------------------------ abstract board
\* new Chess(): the piece at home, the pawn unpushed, none of White's own
\* moves (the pushes d4 and c4, the bishop to f4) made, White to move.
NewChess == [n |-> 0, p |-> 0, x |-> {}, turn |-> "w", half |-> 0, full |-> 1]

\* The bookkeeping every applied move shares: the side to move flips and the
\* fullmove number grows after Black's move.
Moved(b, n2, p2, half2) ==
  [n |-> n2, p |-> p2, x |-> b.x,
   turn |-> IF b.turn = "w" THEN "b" ELSE "w",
   half |-> half2,
   full |-> IF b.turn = "b" THEN b.full + 1 ELSE b.full]

\* One of White's own moves applied.
WhiteMoved(b, tok, half2) == [Moved(b, b.n, b.p, half2) EXCEPT !.x = b.x \cup {tok}]

Failed(b) == [ok |-> FALSE, board |-> b]

\* b.move(tok, { sloppy: true }) on a SAN token: the piece moves out when
\* it is at home and back when it is out; White pushes the d-pawn and the
\* c-pawn once each, and the bishop reaches f4 once the d-pawn is out of its
\* way; anything else is no legal move.
SanMove(b, tok) ==
  IF tok = "Nf3" /\ b.n = 0
  THEN [ok |-> TRUE, board |-> Moved(b, 1, b.p, b.half + 1)]
  ELSE IF tok = "Ng1" /\ b.n = 1
  THEN [ok |-> TRUE, board |-> Moved(b, 0, b.p, b.half + 1)]
  ELSE IF tok \in {"d4", "c4"} /\ b.turn = "w" /\ tok \notin b.x
  THEN [ok |-> TRUE, board |-> WhiteMoved(b, tok, 0)]
  ELSE IF tok = "Bf4" /\ b.turn = "w" /\ "d4" \in b.x /\ "Bf4" \notin b.x
  THEN [ok |-> TRUE, board |-> WhiteMoved(b, tok, b.half + 1)]
  ELSE Failed(b)

\* tok.match(/^([a-h][1-8])([a-h][1-8])([qrbn])?$/i)
UciMatch(tok) == tok = "a2a3"

\* b.move({ from, to }): the pawn push, legal once; it resets the
\* halfmove clock.
ObjectMove(b, tok) ==
  IF tok = "a2a3" /\ b.p = 0
  THEN [ok |-> TRUE, board |-> Moved(b, b.n, 1, 0)]
  ELSE Failed(b)

\* One token of the replay loop: SAN first, coordinate notation as fallback.
TryMove(b, tok) ==
  LET first == SanMove(b, tok)
  IN IF first.ok THEN first
     ELSE IF UciMatch(tok) THEN ObjectMove(b, tok)
     ELSE Failed(b)

\* chessInstance.fen().split(' '): placement, side, castling, en passant,
\* halfmove clock, fullmove number.
FenParts(b) ==
  << <<b.n, b.p, b.x>>, b.turn, "KQkq", "-", b.half, b.full >>

\* parts.slice(0, 4).join(' ')
canonicalFenFromChessInstance(b) == SubSeq(FenParts(b), 1, 4)

\* No position string.
NoFen == << >>

\* A declared position is a full position string of a legal position, or absent.
canonicalizeFenString(fen) ==
  IF fen = NoFen THEN NoFen ELSE SubSeq(fen, 1, 4)

\* The loop of computeFensFromMovesString from a board on.
RECURSIVE FensFrom(_, _)
FensFrom(b, toks) ==
  IF toks = << >> THEN << >>
  ELSE LET r == TryMove(b, Head(toks))
       IN IF ~r.ok THEN << >>
          ELSE << canonicalFenFromChessInstance(r.board) >> \o FensFrom(r.board, Tail(toks))

computeFensFromMovesString(moves) == FensFrom(NewChess, moves)

\* --------------------------------------------------------- catalogue loader
\* Variant of DeriveEntry in which a key reached again overwrites its ply
\* (last-reached wins).
DeriveEntry_LastReached(v) ==
  LET fens == IF v.moves # << >> THEN computeFensFromMovesString(v.moves) ELSE << >>
  IN [name |-> v.name,
      eco |-> v.eco,
      _key |-> IF v.eco # NoText THEN v.eco ELSE v.name,
      _moves_norm |-> v.moves,
      _fen |-> canonicalizeFenString(v.fen),
      _fens_list |-> fens,
      _fen_to_ply |-> [k \in {fens[i] : i \in 1..Len(fens)} |->
                         CHOOSE i \in 1..Len(fens) :
                           fens[i] = k /\ \A j \in (i + 1)..Len(fens) : fens[j] # k]]

\* The derived fields of one record (the first loop of loadOpeningsFromEco).
\* _fen_to_ply keeps the first ply of every key: first-reached wins.
DeriveEntry(v) ==
  LET fens == IF v.moves # << >> THEN computeFensFromMovesString(v.moves) ELSE << >>
  IN [name |-> v.name,
      eco |-> v.eco,
      _key |-> IF v.eco # NoText THEN v.eco ELSE v.name,
      _moves_norm |-> v.moves,
      _fen |-> canonicalizeFenString(v.fen),
      _fens_list |-> fens,
      _fen_to_ply |-> [k \in {fens[i] : i \in 1..Len(fens)} |->
                         CHOOSE i \in 1..Len(fens) :
                           fens[i] = k /\ \A j \in 1..(i - 1) : fens[j] # k]]

addToIndex(fenIndex, canon, ent, ply) ==
  IF canon = NoFen THEN fenIndex
  ELSE LET arr  == IF canon \in DOMAIN fenIndex THEN fenIndex[canon] ELSE << >>
           arr2 == IF \E i \in 1..Len(arr) : arr[i].ent = ent /\ arr[i].ply = ply
                   THEN arr ELSE Append(arr, [ent |-> ent, ply |-> ply])
       IN [k \in (DOMAIN fenIndex) \cup {canon} |-> IF k = canon THEN arr2 ELSE fenIndex[k]]

\* for (const [fen, ply] of Object.entries(ent._fen_to_ply)) addToIndex(fen, ent, ply)
\* in insertion order, i.e. in the order the keys are first reached.
RECURSIVE AddPlies(_, _, _, _)
AddPlies(fenIndex, openings, e, idx) ==
  IF idx > Len(openings[e]._fens_list) THEN fenIndex
  ELSE LET fen == openings[e]._fens_list[idx]
       IN AddPlies(IF openings[e]._fen_to_ply[fen] = idx
                   THEN addToIndex(fenIndex, fen, e, idx) ELSE fenIndex,
                   openings, e, idx + 1)

\* The second loop of loadOpeningsFromEco; an entry is named by its place in
\* the openings list.
RECURSIVE IndexFrom(_, _, _)
IndexFrom(fenIndex, openings, e) ==
  IF e > Len(openings) THEN fenIndex
  ELSE IndexFrom(AddPlies(addToIndex(fenIndex, openings[e]._fen, e, NoPly), openings, e, 1),
                 openings, e + 1)

\* loadOpeningsFromEco on a parsed array of records.
loadOpeningsFromEco(data) ==
  LET openings == [i \in 1..Len(data) |-> DeriveEntry(data[i])]
  IN [openings |-> openings, fenIndex |-> IndexFrom(<< >>, openings, 1)]

\* An item of the parsed data that passes `!v || typeof v !== 'object'`: a
\* record; null, numbers and strings do not.
IsObjectItem(v) == v.shape = "record"

\* The derived fields of a record of a keyed (non-array) catalogue: the key k
\* is the entry's _key and, when the record declares no position, its
\* position candidate.
DeriveKeyed(k, v) ==
  [DeriveEntry(v) EXCEPT !._key = k.text,
                         !._fen = canonicalizeFenString(IF v.fen # NoFen THEN v.fen ELSE k.fen)]

\* The items of the parsed data: [i, v] of an array, [k, v] of an object;
\* Object.entries of a number or a boolean is empty, that of a string holds
\* its characters, which are no objects.
ItemsOf(data) ==
  CASE data.type = "array"  -> [i \in 1..Len(data.items) |->
                                  [keyed |-> FALSE, key |-> Null, v |-> data.items[i]]]
    [] data.type = "object" -> [i \in 1..Len(data.items) |->
                                  [keyed |-> TRUE, key |-> data.items[i].key,
                                   v |-> data.items[i].v]]
    [] OTHER                -> << >>

\* The first loop of loadOpeningsFromEco over the items: non-objects are
\* skipped, every object becomes an entry.
RECURSIVE EntriesFrom(_)
EntriesFrom(items) ==
  IF items = << >> THEN << >>
  ELSE LET it == Head(items)
       IN (IF ~IsObjectItem(it.v) THEN << >>
           ELSE IF it.keyed THEN << DeriveKeyed(it.key, it.v.record) >>
           ELSE << DeriveEntry(it.v.record) >>) \o EntriesFrom(Tail(items))

\* loadOpeningsFromEco(filename) for a state of the catalogue file: what it
\* returns, or that it throws. Object.entries(null) throws a TypeError
\* outside the try block.
loadOpeningsFromFile(source) ==
  LET empty    == [status |-> "returned", openings |-> << >>, fenIndex |-> << >>]
      openings == EntriesFrom(ItemsOf(source.data))
  IN IF source.kind \in {"absent", "unreadable", "invalid_json"} THEN empty
     ELSE IF source.data.type = "null"
     THEN [status |-> "thrown", openings |-> << >>, fenIndex |-> << >>]
     ELSE [status |-> "returned", openings |-> openings,
           fenIndex |-> IndexFrom(<< >>, openings, 1)]

\* FEN_TO_ENTRIES.get(canon) || []
IndexGet(fenIndex, canon) ==
  IF canon \in DOMAIN fenIndex THEN fenIndex[canon] ELSE << >>

\* (ent.name || ent.opening || ent._key || '').toString().trim()
RawNameOf(ent) == Trim(IF ent.name # NoText THEN ent.name ELSE ent._key)

\* movesTokensFromNorm(ent._moves_norm)
movesTokensFromNorm(movesNorm) == movesNorm

\* ------------------------------------------------------------ token helpers
isTokenPrefix(prefix, full) ==
  IF Len(prefix) = 0 THEN TRUE
  ELSE IF Len(prefix) > Len(full) THEN FALSE
  ELSE \A i \in 1..Len(prefix) : prefix[i] = full[i]

\* found / entTokens.length >= threshold, the threshold being thr / ThrDen;
\* false for an entry without tokens and for an empty game.
entryMatchesBySetFraction(entTokens, playedTokens, thr) ==
  IF Len(entTokens) = 0 THEN FALSE
  ELSE IF Len(playedTokens) = 0 THEN FALSE
  ELSE LET playedSet == {playedTokens[i] : i \in 1..Len(playedTokens)}
           found == Cardinality({i \in 1..Len(entTokens) : entTokens[i] \in playedSet})
       IN found * ThrDen >= thr * Len(entTokens)

\* The length of the common prefix of two token lists.
RECURSIVE commonPrefixLen(_, _)
commonPrefixLen(a, b) ==
  IF a = << >> \/ b = << >> THEN 0
  ELSE IF Head(a) # Head(b) THEN 0
  ELSE 1 + commonPrefixLen(Tail(a), Tail(b))

\* --------------------------------------------------------- candidate scorer
\* A scorer without the prefix check: no entry is ever rejected.
PrefixMismatch_Never(entTokens, playedTokensAtPly) == FALSE

\* The prefix check of bestEntryForFen: a mismatch at a shared index.
PrefixMismatch(entTokens, playedTokensAtPly) ==
  LET minLen == Min(Len(entTokens), Len(playedTokensAtPly))
  IN minLen > 0 /\ \E i \in 1..minLen : entTokens[i] # playedTokensAtPly[i]

\* ent._fen_to_ply[canon], NoPly when the entry does not reach the key.
FenToPly(ent, canon) ==
  IF canon \in DOMAIN ent._fen_to_ply THEN ent._fen_to_ply[canon] ELSE NoPly

\* A scoring key that ignores prefer_set_matches: the default order always.
ScoringKey_DefaultOnly(preferSetMatch, setMatched, samePly, reachesCanon, commonLen, fully, movesLen, spec) ==
  << samePly, reachesCanon, commonLen, fully, -movesLen, spec, setMatched >>

\* The scoring key of one candidate, in the order the options ask for.
ScoringKey(preferSetMatch, setMatched, samePly, reachesCanon, commonLen, fully, movesLen, spec) ==
  IF preferSetMatch
  THEN << setMatched, samePly, reachesCanon, commonLen, fully, -movesLen, spec >>
  ELSE << samePly, reachesCanon, commonLen, fully, -movesLen, spec, setMatched >>

\* The scored record of one index reference that passed the prefix check.
ScoreRef(ref, canon, playedTokensAtPly, fullPlayedTokens, options) ==
  LET ent        == OPENINGS[ref.ent]
      entTokens  == movesTokensFromNorm(ent._moves_norm)
      playedLen  == Len(playedTokensAtPly)
      samePly    == IF FenToPly(ent, canon) # NoPly /\ FenToPly(ent, canon) = playedLen
                    THEN 1 ELSE 0
      reaches    == IF FenToPly(ent, canon) # NoPly THEN 1 ELSE 0
      commonLen  == commonPrefixLen(entTokens, playedTokensAtPly)
      fully      == IF Len(entTokens) <= playedLen THEN 1 ELSE 0
      setMatched == IF entryMatchesBySetFraction(entTokens, fullPlayedTokens, options.setThreshold)
                    THEN 1 ELSE 0
  IN [key |-> ScoringKey(options.preferSetMatch, setMatched, samePly, reaches, commonLen,
                         fully, Len(entTokens), specificityScore(RawNameOf(ent))),
      ent |-> ref.ent, entPly |-> ref.ply, rawName |-> RawNameOf(ent),
      entTokens |-> entTokens, setMatched |-> setMatched]

\* The loop over candRefs: the references that pass the prefix check, scored.
RECURSIVE ScoredFrom(_, _, _, _, _)
ScoredFrom(candRefs, canon, playedTokensAtPly, fullPlayedTokens, options) ==
  IF candRefs = << >> THEN << >>
  ELSE LET ref  == Head(candRefs)
           rest == ScoredFrom(Tail(candRefs), canon, playedTokensAtPly, fullPlayedTokens, options)
       IN IF PrefixMismatch(movesTokensFromNorm(OPENINGS[ref.ent]._moves_norm), playedTokensAtPly)
          THEN rest
          ELSE << ScoreRef(ref, canon, playedTokensAtPly, fullPlayedTokens, options) >> \o rest

\* A comparator that sorts ascending: av - bv at the first index that differs.
RECURSIVE CompareKeys_Ascending(_, _, _)
CompareKeys_Ascending(A, B, i) ==
  IF i > Max(Len(A), Len(B)) THEN 0
  ELSE IF A[i] # B[i] THEN A[i] - B[i]
  ELSE CompareKeys_Ascending(A, B, i + 1)

\* The comparator of scored.sort: bv - av at the first index that differs.
RECURSIVE CompareKeys(_, _, _)
CompareKeys(A, B, i) ==
  IF i > Max(Len(A), Len(B)) THEN 0
  ELSE IF A[i] # B[i] THEN B[i] - A[i]
  ELSE CompareKeys(A, B, i + 1)

\* Array.prototype.sort is stable: x goes before the first element it must
\* precede, after every element it ties with.
RECURSIVE InsertSorted(_, _)
InsertSorted(sorted, x) ==
  IF sorted = << >> THEN << x >>
  ELSE IF CompareKeys(x.key, Head(sorted).key, 1) < 0 THEN << x >> \o sorted
  ELSE << Head(sorted) >> \o InsertSorted(Tail(sorted), x)

RECURSIVE SortScored(_, _)
SortScored(sorted, rest) ==
  IF rest = << >> THEN sorted
  ELSE SortScored(InsertSorted(sorted, Head(rest)), Tail(rest))

bestEntryForFen(canon, playedTokensAtPly, fullPlayedTokens, options) ==
  LET candRefs == IndexGet(FEN_TO_ENTRIES, canon)
      scored   == ScoredFrom(candRefs, canon, playedTokensAtPly, fullPlayedTokens, options)
  IN IF candRefs = << >> THEN Null
     ELSE IF scored = << >> THEN Null
     ELSE SortScored(<< >>, scored)[1]

\* ------------------------------------------------- sequence-prefix fallbacks
\* The raw names of a list of entries, each once, in first-occurrence order
\* (the key order of rawCounts).
RECURSIVE RawKeys(_, _)
RawKeys(seen, ents) ==
  IF ents = << >> THEN seen
  ELSE LET raw == RawNameOf(OPENINGS[Head(ents)])
       IN RawKeys(IF Includes(seen, raw) THEN seen ELSE Append(seen, raw), Tail(ents))

\* rawCounts.get(r)
RawCount(ents, r) ==
  Cardinality({i \in 1..Len(ents) : RawNameOf(OPENINGS[ents[i]]) = r})

\* Variant of PickBestRaw that compares specificity only.
RECURSIVE PickBestRaw_NoCount(_, _, _)
PickBestRaw_NoCount(bestRaw, keys, ents) ==
  IF keys = << >> THEN bestRaw
  ELSE LET r == Head(keys)
           better == specificityScore(r) > specificityScore(bestRaw)
       IN PickBestRaw_NoCount(IF bestRaw = NoText THEN r ELSE IF better THEN r ELSE bestRaw,
                              Tail(keys), ents)

\* The loop picking bestRaw: an empty bestRaw counts as not yet set.
RECURSIVE PickBestRaw(_, _, _)
PickBestRaw(bestRaw, keys, ents) ==
  IF keys = << >> THEN bestRaw
  ELSE LET r == Head(keys)
           a0 == specificityScore(bestRaw)
           b0 == specificityScore(r)
           better == b0 > a0 \/ (b0 = a0 /\ RawCount(ents, r) > RawCount(ents, bestRaw))
       IN PickBestRaw(IF bestRaw = NoText THEN r ELSE IF better THEN r ELSE bestRaw,
                      Tail(keys), ents)

\* (rawToEntries.get(bestRaw) || [ents[0]])[0]
ExampleEnt(ents, bestRaw) ==
  LET same == {i \in 1..Len(ents) : RawNameOf(OPENINGS[ents[i]]) = bestRaw}
  IN IF same = {} THEN ents[1]
     ELSE ents[CHOOSE i \in same : \A j \in same : i <= j]

\* The entry numbers 1..n in catalogue order.
AllEnts == [i \in 1..Len(OPENINGS) |-> i]

bestSequenceMatchForTokens(seqTokens) ==
  LET IsCand(e) == /\ OPENINGS[e]._moves_norm # << >>
                   /\ Len(OPENINGS[e]._moves_norm) >= Len(seqTokens)
                   /\ \A i \in 1..Len(seqTokens) : OPENINGS[e]._moves_norm[i] = seqTokens[i]
      candidates == SelectSeq(AllEnts, IsCand)
  IN IF Len(seqTokens) = 0 THEN Null
     ELSE IF candidates = << >> THEN Null
     ELSE [ent |-> ExampleEnt(candidates,
                              PickBestRaw(NoText, RawKeys(<< >>, candidates), candidates))]

\* ------------------------------------------------------------ result shapes
\* The fields of a returned object the model keeps. An absent or null field
\* holds Null, NoFen, NoText or the empty list.
Result(error, opening_path, opening, matched_fen, plies_analyzed, levels, plies) ==
  [error |-> error, opening_path |-> opening_path, opening |-> opening,
   matched_fen |-> matched_fen, plies_analyzed |-> plies_analyzed,
   per_level |-> levels, per_ply |-> plies]

\* openingPath[0] || null
FirstOrNone(opening_path) == IF opening_path = << >> THEN NoText ELSE opening_path[1]

\* tokens[0] || null
FirstTokenOf(toks) == IF toks = << >> THEN "" ELSE toks[1]

NoMovesParsed == Result("No moves parsed from PGN", << >>, Null, NoFen, 0, << >>, << >>)

\* -------------------------------------------------------- analyzeBySequence
\* The narrowing loop: the candidates left and the number of plies done.
RECURSIVE SeqLoop(_, _, _, _)
SeqLoop(candidates, toks, max, plyIndex) ==
  IF ~(plyIndex < Len(toks) /\ plyIndex < max)
  THEN [working |-> candidates, pliesDone |-> plyIndex]
  ELSE LET seqTokens == SubSeq(toks, 1, plyIndex + 1)
           Keeps(e) == isTokenPrefix(seqTokens, movesTokensFromNorm(OPENINGS[e]._moves_norm))
           newCands == SelectSeq(candidates, Keeps)
       IN IF newCands # << >> THEN SeqLoop(newCands, toks, max, plyIndex + 1)
          ELSE [working |-> candidates, pliesDone |-> plyIndex]

analyzeBySequence(toks, max) ==
  LET HasMoves(e) == OPENINGS[e]._moves_norm # << >>
      loop == SeqLoop(SelectSeq(AllEnts, HasMoves), toks, max, 0)
      working == loop.working
      bestRaw == PickBestRaw(NoText, RawKeys(<< >>, working), working)
      openingPath == buildOpeningPathFromRaw(bestRaw, FirstTokenOf(toks))
      exampleEnt == OPENINGS[ExampleEnt(working, bestRaw)]
  IN IF toks = << >> THEN NoMovesParsed
     ELSE IF working = << >>
     THEN Result("", << >>, Null, NoFen, loop.pliesDone, << >>, << >>)
     ELSE Result("", openingPath, [eco |-> exampleEnt.eco, name |-> FirstOrNone(openingPath)],
                 NoFen, loop.pliesDone, << >>, << >>)

\* ------------------------------------------------- analyzeByFen, loop bodies
\* Variant of ScorerOptions in which orderless_matching asks the scorer to
\* prefer set matches.
ScorerOptions_OrderlessPrefers(o) ==
  [preferSetMatch |-> o.prefer_set_matches \/ o.orderless_matching,
   setThreshold |-> o.orderless_threshold]

\* The options every call of the scorer in analyzeByFen passes.
ScorerOptions(o) ==
  [preferSetMatch |-> o.prefer_set_matches, setThreshold |-> o.orderless_threshold]

\* fenPerPly.map(r => r.san).filter(Boolean)
WholeGameTokens(records) == [i \in 1..Len(records) |-> records[i].san]

\* A replay loop that numbers plies from zero and records the prefix without
\* the token just applied.
PlyRecord_OffByOne(records, tok, b) ==
  [ply |-> Len(records), san |-> tok, fen |-> canonicalFenFromChessInstance(b),
   played_tokens |-> WholeGameTokens(records)]

\* The record the replay loop appends for a token that applied.
PlyRecord(records, tok, b) ==
  [ply |-> Len(records) + 1, san |-> tok, fen |-> canonicalFenFromChessInstance(b),
   played_tokens |-> Append(WholeGameTokens(records), tok)]

\* ent.name || ent.opening || ent._key
NameOrKey(ent) == IF ent.name # NoText THEN ent.name ELSE ent._key

\* A per-ply loop whose last resort gives the first-move label at every ply.
PerPlyRecord_LabelAtEveryPly(rec, whole, first, o) ==
  LET bestByFen == bestEntryForFen(rec.fen, rec.played_tokens, whole, ScorerOptions(o))
      seqMatch  == bestSequenceMatchForTokens(rec.played_tokens)
      label     == CanonLabel(rec.played_tokens[1])
      Entry(name, eco, opening_path) ==
        [ply |-> rec.ply, sequence_tokens |-> rec.played_tokens, opening |-> name,
         eco |-> eco, opening_path |-> opening_path, matched_fen |-> rec.fen]
  IN IF bestByFen # Null
     THEN LET ent == OPENINGS[bestByFen.ent]
              chosenPath == buildOpeningPathFromRaw(bestByFen.rawName, first)
          IN Entry(IF chosenPath # << >> THEN chosenPath[1] ELSE NameOrKey(ent),
                   ent.eco, chosenPath)
     ELSE IF seqMatch # Null
     THEN LET ent == OPENINGS[seqMatch.ent]
              chosenPath == buildOpeningPathFromRaw(RawNameOf(ent), first)
          IN Entry(IF chosenPath # << >> THEN chosenPath[1] ELSE NameOrKey(ent),
                   ent.eco, chosenPath)
     ELSE IF label # NoText
     THEN Entry(label, NoText, << label >>)
     ELSE Entry(NoText, NoText, << >>)

\* A per-ply loop that tries the first-move label before the catalogue.
PerPlyRecord_LabelFirst(rec, whole, first, o) ==
  LET bestByFen == bestEntryForFen(rec.fen, rec.played_tokens, whole, ScorerOptions(o))
      seqMatch  == bestSequenceMatchForTokens(rec.played_tokens)
      label     == CanonLabel(rec.played_tokens[1])
      Entry(name, eco, opening_path) ==
        [ply |-> rec.ply, sequence_tokens |-> rec.played_tokens, opening |-> name,
         eco |-> eco, opening_path |-> opening_path, matched_fen |-> rec.fen]
  IN IF Len(rec.played_tokens) = 1 /\ label # NoText
     THEN Entry(label, NoText, << label >>)
     ELSE IF bestByFen # Null
     THEN LET ent == OPENINGS[bestByFen.ent]
              chosenPath == buildOpeningPathFromRaw(bestByFen.rawName, first)
          IN Entry(IF chosenPath # << >> THEN chosenPath[1] ELSE NameOrKey(ent),
                   ent.eco, chosenPath)
     ELSE IF seqMatch # Null
     THEN LET ent == OPENINGS[seqMatch.ent]
              chosenPath == buildOpeningPathFromRaw(RawNameOf(ent), first)
          IN Entry(IF chosenPath # << >> THEN chosenPath[1] ELSE NameOrKey(ent),
                   ent.eco, chosenPath)
     ELSE Entry(NoText, NoText, << >>)

\* One iteration of the per-ply loop: scorer, then sequence fallback, then the
\* popular first move.
PerPlyRecord(rec, whole, first, o) ==
  LET bestByFen == bestEntryForFen(rec.fen, rec.played_tokens, whole, ScorerOptions(o))
      seqMatch  == bestSequenceMatchForTokens(rec.played_tokens)
      label     == CanonLabel(rec.played_tokens[1])
      Entry(name, eco, opening_path) ==
        [ply |-> rec.ply, sequence_tokens |-> rec.played_tokens, opening |-> name,
         eco |-> eco, opening_path |-> opening_path, matched_fen |-> rec.fen]
  IN IF bestByFen # Null
     THEN LET ent == OPENINGS[bestByFen.ent]
              chosenPath == buildOpeningPathFromRaw(bestByFen.rawName, first)
          IN Entry(IF chosenPath # << >> THEN chosenPath[1] ELSE NameOrKey(ent),
                   ent.eco, chosenPath)
     ELSE IF seqMatch # Null
     THEN LET ent == OPENINGS[seqMatch.ent]
              chosenPath == buildOpeningPathFromRaw(RawNameOf(ent), first)
          IN Entry(IF chosenPath # << >> THEN chosenPath[1] ELSE NameOrKey(ent),
                   ent.eco, chosenPath)
     ELSE IF Len(rec.played_tokens) = 1 /\ label # NoText
     THEN Entry(label, NoText, << label >>)
     ELSE Entry(NoText, NoText, << >>)

\* An anchor scan that starts one ply below the deepest ply record.
ScanStart_SkipDeepest(records) == Len(records) - 1

\* The ply the anchor scan starts at: the deepest ply record.
ScanStart(records) == Len(records)

\* An anchor scan whose matchedPly is always the scanned ply.
ScanAt_ScannedPly(record, whole, o) ==
  LET choice == bestEntryForFen(record.fen, record.played_tokens, whole, ScorerOptions(o))
  IN IF IndexGet(FEN_TO_ENTRIES, record.fen) = << >> THEN Null
     ELSE IF choice = Null THEN Null
     ELSE [choice |-> choice, ply |-> record.ply, canon |-> record.fen,
           matchedPly |-> record.ply]

\* Variant of ScanAt that starts the walk-up at the length of the chosen
\* entry's move list.
ScanAt_EntryLength(record, whole, o) ==
  LET choice == bestEntryForFen(record.fen, record.played_tokens, whole, ScorerOptions(o))
  IN IF IndexGet(FEN_TO_ENTRIES, record.fen) = << >> THEN Null
     ELSE IF choice = Null THEN Null
     ELSE [choice |-> choice, ply |-> record.ply, canon |-> record.fen,
           matchedPly |-> Len(choice.entTokens)]


\* One iteration of the anchor scan at a ply record: Null for `continue`,
\* else the scorer's answer with the scanned ply and matchedPly.
ScanAt(record, whole, o) ==
  LET choice == bestEntryForFen(record.fen, record.played_tokens, whole, ScorerOptions(o))
  IN IF IndexGet(FEN_TO_ENTRIES, record.fen) = << >> THEN Null
     ELSE IF choice = Null THEN Null
     ELSE [choice |-> choice, ply |-> record.ply, canon |-> record.fen,
           matchedPly |-> IF choice.entPly # NoPly THEN choice.entPly ELSE record.ply]

\* One iteration of the walk-up at a ply record: the level record and the raw
\* name offered to pathList.
WalkLevel(rec, whole, o) ==
  LET best    == bestEntryForFen(rec.fen, rec.played_tokens, whole, ScorerOptions(o))
      altRefs == IndexGet(FEN_TO_ENTRIES, rec.fen)
      Level(chosen, chosen_raw, eco, by_set) ==
        [ply |-> rec.ply, fen |-> rec.fen, chosen |-> chosen, chosen_raw |-> chosen_raw,
         eco |-> eco, moves_leading |-> rec.played_tokens, matched_by_set |-> by_set]
      Chosen(ent) == [_key |-> ent._key, name |-> NameOrKey(ent), eco |-> ent.eco]
  IN IF best # Null
     THEN LET ent == OPENINGS[best.ent]
          IN [level |-> Level(Chosen(ent), best.rawName, ent.eco,
                              entryMatchesBySetFraction(best.entTokens, whole,
                                                        o.orderless_threshold)),
              raw |-> best.rawName]
     ELSE IF altRefs # << >>
     THEN LET alt == OPENINGS[altRefs[1].ent]
          IN [level |-> Level(Chosen(alt), RawNameOf(alt), alt.eco, FALSE),
              raw |-> RawNameOf(alt)]
     ELSE [level |-> Level(Null, NoText, NoText, FALSE), raw |-> NoText]

\* if (raw && !seen.has(raw)) { pathList.push(raw); seen.add(raw); }
PushName(names, raw) ==
  IF raw # NoText /\ ~Includes(names, raw) THEN Append(names, raw) ELSE names

\* A flattening loop that pushes every fragment, seen before or not.
RECURSIVE Flatten_KeepAll(_, _, _)
Flatten_KeepAll(flat, names, first) ==
  IF names = << >> THEN flat
  ELSE Flatten_KeepAll(flat \o buildOpeningPathFromRaw(Head(names), first),
                       Tail(names), first)

\* The flattening loop: every name's fragments, each fragment once.
RECURSIVE Flatten(_, _, _)
Flatten(flat, names, first) ==
  IF names = << >> THEN flat
  ELSE Flatten(PushAllNew(flat, buildOpeningPathFromRaw(Head(names), first)),
               Tail(names), first)

\* A merged path built without the game's first token.
MergedPath_NoFirstToken(names, chosenRaw, first) ==
  IF names # << >> THEN Flatten(<< >>, names, "")
  ELSE buildOpeningPathFromRaw(chosenRaw, "")

\* The opening_path of a canonical-key result.
MergedPath(names, chosenRaw, first) ==
  IF names # << >> THEN Flatten(<< >>, names, first)
  ELSE buildOpeningPathFromRaw(chosenRaw, first)

\* The object a canonical-key match returns.
FenResult(anchor, names, levels, plies, first) ==
  LET openingPath == MergedPath(names, anchor.choice.rawName, first)
  IN Result("", openingPath,
            [eco |-> OPENINGS[anchor.choice.ent].eco, name |-> FirstOrNone(openingPath)],
            anchor.canon, anchor.matchedPly, levels, plies)

\* The object returned when no ply record exists.
NoFensResult(toks, max, fenOnly) ==
  IF fenOnly THEN Result("no_fens_parsed", << >>, Null, NoFen, 0, << >>, << >>)
  ELSE analyzeBySequence(toks, max)

\* A fallback that never runs the sequence classifier.
NoAnchorResult_NeverSequence(toks, max, fenOnly, pliesDone, plies) ==
  Result("no_fen_match", << >>, Null, NoFen, pliesDone, << >>, plies)

\* A fallback that runs the sequence classifier in position-only mode too.
NoAnchorResult_AlwaysSequence(toks, max, fenOnly, pliesDone, plies) ==
  [analyzeBySequence(toks, max) EXCEPT !.per_ply = plies]

\* The object returned when the anchor scan found nothing.
NoAnchorResult(toks, max, fenOnly, pliesDone, plies) ==
  IF fenOnly THEN Result("no_fen_match", << >>, Null, NoFen, pliesDone, << >>, plies)
  ELSE [analyzeBySequence(toks, max) EXCEPT !.per_ply = plies]

\* ------------------------------------------------ analyzeByFen, as one call
\* The replay loop.
RECURSIVE ReplayAll(_, _, _, _)
ReplayAll(records, b, toks, max) ==
  IF ~(Len(records) < Len(toks) /\ Len(records) < max) THEN records
  ELSE LET tok == toks[Len(records) + 1]
           r   == TryMove(b, tok)
       IN IF ~r.ok THEN records
          ELSE ReplayAll(Append(records, PlyRecord(records, tok, r.board)), r.board, toks, max)

\* The anchor scan from ply record k down.
RECURSIVE ScanAll(_, _, _)
ScanAll(records, k, o) ==
  IF k < 1 THEN Null
  ELSE LET a == ScanAt(records[k], WholeGameTokens(records), o)
       IN IF a # Null THEN a ELSE ScanAll(records, k - 1, o)

\* The walk-up from ply k down to 1.
RECURSIVE WalkAll(_, _, _, _, _)
WalkAll(records, k, o, names, levels) ==
  IF k < 1 THEN [names |-> names, levels |-> levels]
  ELSE IF k > Len(records) THEN WalkAll(records, k - 1, o, names, levels)
  ELSE LET w == WalkLevel(records[k], WholeGameTokens(records), o)
       IN WalkAll(records, k - 1, o, PushName(names, w.raw), Append(levels, w.level))

analyzeByFen(toks, max, fenOnly, o) ==
  LET records == ReplayAll(<< >>, NewChess, toks, max)
      whole   == WholeGameTokens(records)
      first   == FirstTokenOf(toks)
      plies   == [i \in 1..Len(records) |-> PerPlyRecord(records[i], whole, first, o)]
      anchor  == ScanAll(records, ScanStart(records), o)
      walk    == WalkAll(records, anchor.matchedPly, o, << >>, << >>)
  IN IF toks = << >> THEN NoMovesParsed
     ELSE IF records = << >> THEN NoFensResult(toks, max, fenOnly)
     ELSE IF anchor # Null THEN FenResult(anchor, walk.names, walk.levels, plies, first)
     ELSE NoAnchorResult(toks, max, fenOnly, Len(records), plies)

\* ----------------------------------------------------------------- inputs
\* A position string: the full position after a legal move list.
RECURSIVE BoardAfter(_, _)
BoardAfter(b, toks) ==
  IF toks = << >> THEN b ELSE BoardAfter(TryMove(b, Head(toks)).board, Tail(toks))

FenAfter(toks) == FenParts(BoardAfter(NewChess, toks))

Record(name, eco, moves, fen) == [name |-> name, eco |-> eco, moves |-> moves, fen |-> fen]

\* The catalogue records the model draws catalogues from, in file order.
Pool ==
  << Record(<<"A">>, NoText, <<"Nf3">>, NoFen),
     Record(<<"B">>, <<"C">>, <<"Nf3">>, NoFen),
     Record(<<"A", ":", "B">>, NoText, <<"Nf3", "a2a3">>, NoFen),
     Record(<<"B", ",", "A">>, NoText, <<"a2a3", "Nf3">>, NoFen),
     Record(<<"B", ":", "A", ",", "R">>, NoText, <<"Nf3", "Ng1">>, NoFen),
     Record(<<"R">>, NoText, << >>, FenAfter(<<"Nf3", "a2a3", "Ng1">>)),
     Record(NoText, <<"C">>, <<"Ng1">>, NoFen) >>

\* The records of Pool at the places in S, in file order.
RECURSIVE PickFrom(_, _)
PickFrom(S, i) ==
  IF i > Len(Pool) THEN << >>
  ELSE (IF i \in S THEN << Pool[i] >> ELSE << >>) \o PickFrom(S, i + 1)

Catalogues ==
  {PickFrom(S, 1) : S \in {T \in SUBSET (1..Len(Pool)) : Cardinality(T) <= MaxEntries}}

\* The token lists of at most n tokens.
RECURSIVE TokenLists(_)
TokenLists(n) ==
  IF n = 0 THEN {<< >>}
  ELSE LET shorter == TokenLists(n - 1)
       IN shorter \cup {Append(t, tok) : t \in shorter, tok \in Tokens}

Games == TokenLists(MaxPlies)
PlyLimits == {MaxPlies - 1, MaxPlies}
\* Orderless thresholds 1/2 and 1.
Thresholds == {ThrDen - 1, ThrDen}
Options ==
  [prefer_set_matches : BOOLEAN, orderless_threshold : Thresholds, orderless_matching : {FALSE}]

\* --------------------------------------------------------------- the system
IdleData ==
  /\ tokens = << >> /\ max_plies = 0 /\ requireFenOnly = FALSE
  /\ opts = [prefer_set_matches |-> FALSE, orderless_threshold |-> ThrDen,
             orderless_matching |-> FALSE]
  /\ board = NewChess /\ fenPerPly = << >> /\ per_ply = << >>
  /\ ri = 0 /\ entryChoice = Null /\ p = 0 /\ pathList = << >> /\ per_level = << >>
  /\ result = Null /\ call = Null

PathIdle == pbRawName = NoText /\ pbFirstToken = "" /\ pbPath = << >>

\* No query on a text and no call of the sequence matcher has been made.
QueryIdle == pgnText = << >> /\ seqResult = Null /\ seqAnswer = Null

\* The catalogue was loaded when the module was loaded; the loader is not
\* looked at on its own.
LoaderIdle == ecoSource = Null /\ loadStatus = "returned"

\* The state after the module is loaded: the catalogue is read and indexed.
Init ==
  /\ \E data \in Catalogues :
       LET loaded == loadOpeningsFromEco(data)
       IN OPENINGS = loaded.openings /\ FEN_TO_ENTRIES = loaded.fenIndex
  /\ IdleData /\ pc = "idle"
  /\ PathIdle /\ QueryIdle /\ LoaderIdle

\* analyzeByFen is called: the tokens are read, the board is set up.
Call(toks, max, fenOnly, o) ==
  /\ pc = "idle"
  /\ tokens' = toks /\ max_plies' = max /\ requireFenOnly' = fenOnly /\ opts' = o
  /\ IF toks = << >>
     THEN pc' = "done" /\ result' = NoMovesParsed
     ELSE pc' = "replay" /\ result' = Null
  /\ UNCHANGED << board, fenPerPly, per_ply, ri, entryChoice, p, pathList, per_level, call >>
  /\ UNCHANGED << catalogueVars, pathVars, queryVars, loaderVars >>

ReplayGoesOn ==
  /\ Len(fenPerPly) < Len(tokens) /\ Len(fenPerPly) < max_plies
  /\ TryMove(board, tokens[Len(fenPerPly) + 1]).ok

\* One iteration of the replay loop whose token applies.
ReplayStep ==
  /\ pc = "replay" /\ ReplayGoesOn
  /\ LET tok == tokens[Len(fenPerPly) + 1]
         r   == TryMove(board, tok)
     IN /\ board' = r.board
        /\ fenPerPly' = Append(fenPerPly, PlyRecord(fenPerPly, tok, r.board))
  /\ UNCHANGED << tokens, max_plies, requireFenOnly, opts, pc, per_ply, ri, entryChoice, p,
                  pathList, per_level, result, call >>
  /\ UNCHANGED << catalogueVars, pathVars, queryVars, loaderVars >>

\* The replay loop ends: out of tokens, at the ply limit, or at a token that
\* does not apply. Without ply records the call returns here.
ReplayStop ==
  /\ pc = "replay" /\ ~ReplayGoesOn
  /\ IF fenPerPly = << >>
     THEN pc' = "done" /\ result' = NoFensResult(tokens, max_plies, requireFenOnly)
     ELSE pc' = "per_ply" /\ result' = result
  /\ UNCHANGED << tokens, max_plies, requireFenOnly, opts, board, fenPerPly, per_ply, ri,
                  entryChoice, p, pathList, per_level, call >>
  /\ UNCHANGED << catalogueVars, pathVars, queryVars, loaderVars >>

\* The scorer call a loop body makes at a ply record.
ScorerCall(rec) ==
  [canon |-> rec.fen, played |-> rec.played_tokens, whole |-> WholeGameTokens(fenPerPly),
   options |-> ScorerOptions(opts),
   best |-> bestEntryForFen(rec.fen, rec.played_tokens, WholeGameTokens(fenPerPly),
                            ScorerOptions(opts))]

\* One iteration of the per-ply loop; after the last one the anchor scan
\* starts at the deepest ply record.
PerPlyStep ==
  /\ pc = "per_ply"
  /\ LET rec == fenPerPly[Len(per_ply) + 1]
     IN /\ per_ply' = Append(per_ply, PerPlyRecord(rec, WholeGameTokens(fenPerPly),
                                                   FirstTokenOf(tokens), opts))
        /\ call' = ScorerCall(rec)
  /\ IF Len(per_ply) + 1 = Len(fenPerPly)
     THEN pc' = "scan" /\ ri' = ScanStart(fenPerPly)
     ELSE pc' = pc /\ ri' = ri
  /\ UNCHANGED << tokens, max_plies, requireFenOnly, opts, board, fenPerPly, entryChoice, p,
                  pathList, per_level, result >>
  /\ UNCHANGED << catalogueVars, pathVars, queryVars, loaderVars >>

\* One iteration of the anchor scan that goes on to the next shallower ply.
ScanSkip ==
  /\ pc = "scan" /\ ri >= 1
  /\ ScanAt(fenPerPly[ri], WholeGameTokens(fenPerPly), opts) = Null
  /\ ri' = ri - 1
  /\ call' = IF IndexGet(FEN_TO_ENTRIES, fenPerPly[ri].fen) = << >> THEN call
             ELSE ScorerCall(fenPerPly[ri])
  /\ UNCHANGED << tokens, max_plies, requireFenOnly, opts, pc, board, fenPerPly, per_ply,
                  entryChoice, p, pathList, per_level, result >>
  /\ UNCHANGED << catalogueVars, pathVars, queryVars, loaderVars >>

\* An anchor scan that sorts the index list of the anchor key in place: the
\* chosen reference moves to the front.
ScanAnchor_SortsInPlace ==
  /\ pc = "scan" /\ ri >= 1
  /\ LET a == ScanAt(fenPerPly[ri], WholeGameTokens(fenPerPly), opts)
         refs == IndexGet(FEN_TO_ENTRIES, fenPerPly[ri].fen)
         IsOther(r) == r.ent # a.choice.ent \/ r.ply # a.choice.entPly
     IN /\ a # Null
        /\ entryChoice' = a
        /\ p' = a.matchedPly
        /\ FEN_TO_ENTRIES' =
             [FEN_TO_ENTRIES EXCEPT ![fenPerPly[ri].fen] =
                << [ent |-> a.choice.ent, ply |-> a.choice.entPly] >> \o SelectSeq(refs, IsOther)]
  /\ call' = ScorerCall(fenPerPly[ri])
  /\ pc' = "walk"
  /\ UNCHANGED << tokens, max_plies, requireFenOnly, opts, board, fenPerPly, per_ply, ri,
                  pathList, per_level, result >>
  /\ UNCHANGED << OPENINGS, pathVars, queryVars, loaderVars >>

\* The iteration of the anchor scan that finds the anchor; the walk-up starts
\* at matchedPly.
ScanAnchor ==
  /\ pc = "scan" /\ ri >= 1
  /\ LET a == ScanAt(fenPerPly[ri], WholeGameTokens(fenPerPly), opts)
     IN /\ a # Null
        /\ entryChoice' = a
        /\ p' = a.matchedPly
  /\ call' = ScorerCall(fenPerPly[ri])
  /\ pc' = "walk"
  /\ UNCHANGED << tokens, max_plies, requireFenOnly, opts, board, fenPerPly, per_ply, ri,
                  pathList, per_level, result >>
  /\ UNCHANGED << catalogueVars, pathVars, queryVars, loaderVars >>

\* The anchor scan ends without an anchor: the no-match object or the
\* sequence classifier's.
ScanFail ==
  /\ pc = "scan" /\ ri < 1
  /\ result' = NoAnchorResult(tokens, max_plies, requireFenOnly, Len(fenPerPly), per_ply)
  /\ pc' = "done"
  /\ UNCHANGED << tokens, max_plies, requireFenOnly, opts, board, fenPerPly, per_ply, ri,
                  entryChoice, p, pathList, per_level, call >>
  /\ UNCHANGED << catalogueVars, pathVars, queryVars, loaderVars >>

\* One iteration of the walk-up loop.
WalkStep ==
  /\ pc = "walk" /\ p >= 1
  /\ IF p > Len(fenPerPly)
     THEN UNCHANGED << pathList, per_level, call >>
     ELSE LET w == WalkLevel(fenPerPly[p], WholeGameTokens(fenPerPly), opts)
          IN /\ pathList' = PushName(pathList, w.raw)
             /\ per_level' = Append(per_level, w.level)
             /\ call' = ScorerCall(fenPerPly[p])
  /\ p' = p - 1
  /\ UNCHANGED << tokens, max_plies, requireFenOnly, opts, pc, board, fenPerPly, per_ply, ri,
                  entryChoice, result >>
  /\ UNCHANGED << catalogueVars, pathVars, queryVars, loaderVars >>

\* The walk-up is over: the names are flattened and the object is returned.
WalkDone ==
  /\ pc = "walk" /\ p < 1
  /\ result' = FenResult(entryChoice, pathList, per_level, per_ply, FirstTokenOf(tokens))
  /\ pc' = "done"
  /\ UNCHANGED << tokens, max_plies, requireFenOnly, opts, board, fenPerPly, per_ply, ri,
                  entryChoice, p, pathList, per_level, call >>
  /\ UNCHANGED << catalogueVars, pathVars, queryVars, loaderVars >>

\* The caller has the object; the next call starts from scratch.
Return ==
  /\ pc = "done"
  /\ tokens' = << >> /\ max_plies' = 0 /\ requireFenOnly' = FALSE
  /\ opts' = [prefer_set_matches |-> FALSE, orderless_threshold |-> ThrDen,
              orderless_matching |-> FALSE]
  /\ pc' = "idle" /\ board' = NewChess /\ fenPerPly' = << >> /\ per_ply' = << >>
  /\ ri' = 0 /\ entryChoice' = Null /\ p' = 0 /\ pathList' = << >> /\ per_level' = << >>
  /\ result' = Null /\ call' = Null
  /\ UNCHANGED << catalogueVars, pathVars, queryVars, loaderVars >>

Next ==
  \/ \E toks \in Games, max \in PlyLimits, fenOnly \in BOOLEAN, o \in Options :
       Call(toks, max, fenOnly, o)
  \/ ReplayStep
  \/ ReplayStop
  \/ PerPlyStep
  \/ ScanSkip
  \/ ScanAnchor
  \/ ScanFail
  \/ WalkStep
  \/ WalkDone
  \/ Return

Spec == Init /\ [][Next]_vars

\* ------------------------------------------- the path builder on its own
\* The characters raw names are made of.
NameChars == {"A", "R", ":", ",", " ", "(", ")", "."}

\* The strings over NameChars of at most n characters.
RECURSIVE NamesUpTo(_)
NamesUpTo(n) ==
  IF n = 0 THEN {<< >>}
  ELSE LET shorter == NamesUpTo(n - 1)
       IN shorter \cup {Append(t, c) : t \in shorter, c \in NameChars}

RawNames == NamesUpTo(MaxNameLen)
FirstTokens == {"", "Nf3", "a2a3"}

\* The path builder is about to be called with a raw name and a first token.
PathInit ==
  /\ OPENINGS = << >> /\ FEN_TO_ENTRIES = << >>
  /\ IdleData /\ pc = "build"
  /\ pbRawName \in RawNames /\ pbFirstToken \in FirstTokens /\ pbPath = << >>
  /\ QueryIdle /\ LoaderIdle

\* buildOpeningPathFromRaw(rawName, firstToken) returns.
BuildPath ==
  /\ pc = "build"
  /\ pbPath' = buildOpeningPathFromRaw(pbRawName, pbFirstToken)
  /\ pc' = "built"
  /\ UNCHANGED << pbRawName, pbFirstToken, catalogueVars, queryVars, loaderVars >>
  /\ UNCHANGED << tokens, max_plies, requireFenOnly, opts, board, fenPerPly, per_ply, ri,
                  entryChoice, p, pathList, per_level, result, call >>

PathNext == BuildPath

SpecPath == PathInit /\ [][PathNext]_vars

\* ------------------------------------------------------ queries on a text
\* Longest text, in pieces.
MaxPieces == 3

\* The pieces of the texts: a move number, a numbered move, a move, a result
\* marker, a whole comment, the two ends of a longer comment, a variation.
Pieces ==
  {<<"1", ".">>, <<"1", ".", "Nf3">>, <<"Nf3">>, <<"1-0">>, <<"{", "c", "}">>,
   <<"{", "c">>, <<"c", "}">>, <<"(", "Ng1", ")">>}

RECURSIVE TextsUpTo(_)
TextsUpTo(n) ==
  IF n = 0 THEN {<< >>}
  ELSE LET shorter == TextsUpTo(n - 1)
       IN shorter \cup {Append(t, piece) : t \in shorter, piece \in Pieces}

Texts == TextsUpTo(MaxPieces)

\* The catalogues of the text queries: none or one record.
TextCatalogues == {c \in Catalogues : Len(c) <= 1}

\* A text is about to be classified.
TextInit ==
  /\ \E data \in TextCatalogues :
       LET loaded == loadOpeningsFromEco(data)
       IN OPENINGS = loaded.openings /\ FEN_TO_ENTRIES = loaded.fenIndex
  /\ IdleData /\ pc = "text"
  /\ pgnText \in Texts /\ seqResult = Null /\ seqAnswer = Null
  /\ PathIdle /\ LoaderIdle

\* analyzeByFen(pgnText, max, fenOnly) and analyzeBySequence(pgnText, max)
\* return: both tokenize the text first.
QueryText(max, fenOnly) ==
  /\ pc = "text"
  /\ tokens' = tokenizePgnMoves(pgnText)
  /\ max_plies' = max /\ requireFenOnly' = fenOnly
  /\ result' = analyzeByFen(tokenizePgnMoves(pgnText), max, fenOnly, opts)
  /\ seqResult' = analyzeBySequence(tokenizePgnMoves(pgnText), max)
  /\ pc' = "answered"
  /\ UNCHANGED << opts, board, fenPerPly, per_ply, ri, entryChoice, p, pathList, per_level,
                  call, pgnText, seqAnswer >>
  /\ UNCHANGED << catalogueVars, pathVars, loaderVars >>

TextNext == \E fenOnly \in BOOLEAN : QueryText(MaxPlies, fenOnly)

SpecText == TextInit /\ [][TextNext]_vars

\* --------------------------------------------------- the loader on its own
\* The records of the catalogue files: a move list that repeats a position,
\* a declared position its own moves reach, a declared position alone, an
\* object without fields, a move list whose second move is illegal.
LoadPool ==
  << Record(<<"A">>, NoText, <<"Nf3", "Ng1", "Nf3">>, NoFen),
     Record(<<"B">>, <<"C">>, <<"Nf3">>, FenAfter(<<"Nf3">>)),
     Record(<<"R">>, NoText, << >>, FenAfter(<<"Nf3", "a2a3">>)),
     Record(NoText, NoText, << >>, NoFen),
     Record(<<"D">>, NoText, <<"Nf3", "Nf3">>, NoFen) >>

\* What an item of the data can be: a record, or null, a number, a string.
Items ==
  {[shape |-> "record", record |-> LoadPool[i]] : i \in 1..Len(LoadPool)}
    \cup {[shape |-> sh] : sh \in {"null", "number", "string"}}

\* The keys of a keyed catalogue: a position string, or a short text that is
\* no position.
Keys == {[text |-> <<"F">>, fen |-> FenAfter(<<"Nf3">>)], [text |-> <<"E">>, fen |-> NoFen]}

RECURSIVE ListsUpTo(_, _)
ListsUpTo(S, n) ==
  IF n = 0 THEN {<< >>}
  ELSE LET shorter == ListsUpTo(S, n - 1)
       IN shorter \cup {Append(l, x) : l \in shorter, x \in S}

\* The keys of an object are distinct.
DistinctKeys(l) == \A i, j \in 1..Len(l) : i # j => l[i].key # l[j].key

\* The states of the catalogue file.
Sources ==
  {[kind |-> k] : k \in {"absent", "unreadable", "invalid_json"}}
    \cup {[kind |-> "json", data |-> [type |-> t]] :
            t \in {"null", "number", "string", "boolean"}}
    \cup {[kind |-> "json", data |-> [type |-> "array", items |-> l]] :
            l \in ListsUpTo(Items, MaxEntries)}
    \cup {[kind |-> "json", data |-> [type |-> "object", items |-> l]] :
            l \in {m \in ListsUpTo({[key |-> k, v |-> v] : k \in Keys, v \in Items}, MaxEntries) :
                     DistinctKeys(m)}}

\* The module is about to be loaded: the catalogue file is in some state.
LoadInit ==
  /\ ecoSource \in Sources /\ loadStatus = "not_called"
  /\ OPENINGS = << >> /\ FEN_TO_ENTRIES = << >>
  /\ IdleData /\ pc = "idle"
  /\ PathIdle /\ QueryIdle

\* const { openings: OPENINGS, fenIndex: FEN_TO_ENTRIES } =
\*   loadOpeningsFromEco(ECO_FILENAME)
Load ==
  /\ loadStatus = "not_called"
  /\ LET loaded == loadOpeningsFromFile(ecoSource)
     IN /\ loadStatus' = loaded.status
        /\ OPENINGS' = loaded.openings
        /\ FEN_TO_ENTRIES' = loaded.fenIndex
  /\ UNCHANGED << ecoSource, analysisVars, pathVars, queryVars >>

LoadNext == Load

SpecLoad == LoadInit /\ [][LoadNext]_vars

\* ------------------------------------------ the sequence matcher on its own
MaxSeqEntries == 3

\* The records of the sequence matcher's catalogues: two records of one name,
\* names of equal and of higher specificity, a record whose first token
\* differs, a record without name or code, a record without moves.
SeqPool ==
  << Record(<<"A">>, NoText, <<"Nf3">>, NoFen),
     Record(<<"A">>, NoText, <<"Nf3", "Ng1">>, NoFen),
     Record(<<"B">>, NoText, <<"Nf3", "Ng1">>, NoFen),
     Record(<<"A", ":", "B">>, NoText, <<"Nf3", "Ng1", "Nf3">>, NoFen),
     Record(<<"B", ":", "A">>, NoText, <<"a2a3">>, NoFen),
     Record(NoText, NoText, <<"Nf3">>, NoFen),
     Record(<<"R">>, NoText, << >>, FenAfter(<<"Nf3">>)) >>

\* The catalogues of at most n records of SeqPool, in any order, a record
\* possibly more than once.
RECURSIVE SeqCataloguesUpTo(_)
SeqCataloguesUpTo(n) ==
  IF n = 0 THEN {<< >>}
  ELSE LET shorter == SeqCataloguesUpTo(n - 1)
       IN shorter \cup {Append(c, SeqPool[i]) : c \in shorter, i \in 1..Len(SeqPool)}

SeqCatalogues == SeqCataloguesUpTo(MaxSeqEntries)

\* A played prefix is about to be matched against the loaded catalogue.
SeqInit ==
  /\ \E data \in SeqCatalogues :
       LET loaded == loadOpeningsFromEco(data)
       IN OPENINGS = loaded.openings /\ FEN_TO_ENTRIES = loaded.fenIndex
  /\ tokens \in Games /\ max_plies = 0 /\ requireFenOnly = FALSE
  /\ opts = [prefer_set_matches |-> FALSE, orderless_threshold |-> ThrDen,
             orderless_matching |-> FALSE]
  /\ board = NewChess /\ fenPerPly = << >> /\ per_ply = << >>
  /\ ri = 0 /\ entryChoice = Null /\ p = 0 /\ pathList = << >> /\ per_level = << >>
  /\ result = Null /\ call = Null
  /\ pc = "sequence"
  /\ PathIdle /\ QueryIdle /\ LoaderIdle

\* bestSequenceMatchForTokens(tokens) returns.
MatchSequence ==
  /\ pc = "sequence"
  /\ seqAnswer' = bestSequenceMatchForTokens(tokens)
  /\ pc' = "matched"
  /\ UNCHANGED << tokens, max_plies, requireFenOnly, opts, board, fenPerPly, per_ply, ri,
                  entryChoice, p, pathList, per_level, result, call, pgnText, seqResult >>
  /\ UNCHANGED << catalogueVars, pathVars, loaderVars >>

SeqNext == MatchSequence

SpecSeq == SeqInit /\ [][SeqNext]_vars

\* --------------------------------------------------------- pattern override
\* The override is described by section 4.6 of the specification; the file
\* modelled here holds no detector, so the definitions of this section
\* follow the specification's text.
\* The detector's window: the first 16 plies.
PatternPlies == 16

\* The label of the named system, one letter like every label of the model.
SystemLabel == <<"S">>

\* White's plies inside the window.
WhitePlies(toks) == {i \in 1..Min(Len(toks), PatternPlies) : i % 2 = 1}

\* The diagnostic pattern: White develops the bishop to f4 with no earlier
\* push of the c-pawn, and pushes the d-pawn inside the window.
PatternDetected(toks) ==
  \E i \in WhitePlies(toks) :
    /\ toks[i] = "Bf4"
    /\ \A j \in WhitePlies(toks) : j < i => toks[j] # "c4"
    /\ \E k \in WhitePlies(toks) : toks[k] = "d4"

\* The keys of an entry: those its moves reach and its declared position.
KeysOfEntry(ent) ==
  {ent._fens_list[i] : i \in 1..Len(ent._fens_list)} \cup
    (IF ent._fen = NoFen THEN {} ELSE {ent._fen})

\* The catalogue search of the override: the entries whose name mentions the
\* system and that share a key with the played game, the lowest ply first,
\* then catalogue order; Null when there is none.
SystemMatch(records) ==
  LET hits == {h \in (1..Len(OPENINGS)) \X (1..Len(records)) :
                 /\ Includes(RawNameOf(OPENINGS[h[1]]), SystemLabel[1])
                 /\ records[h[2]].fen \in KeysOfEntry(OPENINGS[h[1]])}
  IN IF hits = {} THEN Null
     ELSE LET best == CHOOSE h \in hits :
                        \A g \in hits : h[2] < g[2] \/ (h[2] = g[2] /\ h[1] <= g[1])
          IN [ent |-> best[1], ply |-> best[2]]

\* The synthesis: the label goes before the path the sequence fallback
\* produced; nothing else of the result changes.
SynthesizeOverride(base) == [base EXCEPT !.opening_path = << SystemLabel >> \o @]

\* The override applied to what analyzeByFen returns. A catalogue match
\* gives the path of the matched entry's name; without one, a result of the
\* sequence fallback gets the synthesized path; per_ply is never touched.
patternOverride(base, toks, records, fromSequence) ==
  IF ~PatternDetected(toks) THEN base
  ELSE IF SystemMatch(records) # Null
  THEN [base EXCEPT !.opening_path =
          buildOpeningPathFromRaw(RawNameOf(OPENINGS[SystemMatch(records).ent]),
                                  FirstTokenOf(toks))]
  ELSE IF fromSequence THEN SynthesizeOverride(base)
  ELSE base

\* analyzeByFen followed by the override.
analyzeWithOverride(toks, max, fenOnly, o) ==
  LET records == ReplayAll(<< >>, NewChess, toks, max)
      anchor  == IF records = << >> THEN Null ELSE ScanAll(records, ScanStart(records), o)
  IN patternOverride(analyzeByFen(toks, max, fenOnly, o), toks, records,
                     toks # << >> /\ anchor = Null /\ ~fenOnly)

MaxOverridePlies == 5

\* The tokens of the override queries: White's pushes and bishop move, and
\* the knight moves either side answers with.
OverrideTokens == {"d4", "c4", "Bf4", "Nf3", "Ng1"}

RECURSIVE OverrideGamesUpTo(_)
OverrideGamesUpTo(n) ==
  IF n = 0 THEN {<< >>}
  ELSE LET shorter == OverrideGamesUpTo(n - 1)
       IN shorter \cup {Append(t, tok) : t \in shorter, tok \in OverrideTokens}

OverrideGames == OverrideGamesUpTo(MaxOverridePlies)

\* The catalogues of the override queries: nothing, an entry no such game
\* reaches, an entry of the system, an entry of another name on the same
\* moves.
OverrideCatalogues ==
  { << >>,
    << Record(<<"A", ":", "B">>, NoText, <<"Nf3", "Ng1">>, NoFen) >>,
    << Record(<<"S", ":", "A">>, NoText, <<"d4", "Nf3", "Bf4">>, NoFen) >>,
    << Record(<<"A">>, NoText, <<"d4", "Nf3">>, NoFen) >>,
    << Record(<<"A", ":", "B">>, NoText, <<"Nf3", "Ng1">>, NoFen),
       Record(<<"S">>, NoText, << >>, FenAfter(<<"Nf3", "Ng1", "Nf3">>)) >> }

\* A game is about to be classified with the override in place.
OverrideInit ==
  /\ \E data \in OverrideCatalogues :
       LET loaded == loadOpeningsFromEco(data)
       IN OPENINGS = loaded.openings /\ FEN_TO_ENTRIES = loaded.fenIndex
  /\ tokens \in OverrideGames /\ max_plies = 0 /\ requireFenOnly = FALSE
  /\ opts = [prefer_set_matches |-> FALSE, orderless_threshold |-> ThrDen,
             orderless_matching |-> FALSE]
  /\ board = NewChess /\ fenPerPly = << >> /\ per_ply = << >>
  /\ ri = 0 /\ entryChoice = Null /\ p = 0 /\ pathList = << >> /\ per_level = << >>
  /\ result = Null /\ call = Null
  /\ pc = "override"
  /\ PathIdle /\ QueryIdle /\ LoaderIdle

\* The classification returns.
QueryWithOverride(max, fenOnly) ==
  /\ pc = "override"
  /\ max_plies' = max /\ requireFenOnly' = fenOnly
  /\ result' = analyzeWithOverride(tokens, max, fenOnly, opts)
  /\ pc' = "overridden"
  /\ UNCHANGED << tokens, opts, board, fenPerPly, per_ply, ri, entryChoice, p, pathList,
                  per_level, call >>
  /\ UNCHANGED << catalogueVars, pathVars, queryVars, loaderVars >>

OverrideNext == \E fenOnly \in BOOLEAN : QueryWithOverride(MaxOverridePlies, fenOnly)

SpecOverride == OverrideInit /\ [][OverrideNext]_vars

\* ------------------------------------------------ the /analyze request
\* The options a request can carry: orderless_matching either way.
RequestOptions ==
  [prefer_set_matches : BOOLEAN, orderless_threshold : Thresholds, orderless_matching : BOOLEAN]

\* A request with a game and a ply limit is about to be served.
AnalyzeInit ==
  /\ \E data \in Catalogues :
       LET loaded == loadOpeningsFromEco(data)
       IN OPENINGS = loaded.openings /\ FEN_TO_ENTRIES = loaded.fenIndex
  /\ tokens \in Games /\ max_plies \in PlyLimits /\ requireFenOnly = FALSE
  /\ opts = [prefer_set_matches |-> FALSE, orderless_threshold |-> ThrDen,
             orderless_matching |-> FALSE]
  /\ board = NewChess /\ fenPerPly = << >> /\ per_ply = << >>
  /\ ri = 0 /\ entryChoice = Null /\ p = 0 /\ pathList = << >> /\ per_level = << >>
  /\ result = Null /\ call = Null
  /\ pc = "request"
  /\ PathIdle /\ QueryIdle /\ LoaderIdle

\* app.post('/analyze'): the options are read from the body and passed to
\* analyzeByFen; the answer is what analyzeByFen returns.
Analyze(fenOnly, o) ==
  /\ pc = "request"
  /\ requireFenOnly' = fenOnly /\ opts' = o
  /\ result' = analyzeByFen(tokens, max_plies, fenOnly, o)
  /\ pc' = "responded"
  /\ UNCHANGED << tokens, max_plies, board, fenPerPly, per_ply, ri, entryChoice, p, pathList,
                  per_level, call >>
  /\ UNCHANGED << catalogueVars, pathVars, queryVars, loaderVars >>

AnalyzeNext == \E fenOnly \in BOOLEAN, o \in RequestOptions : Analyze(fenOnly, o)

SpecAnalyze == AnalyzeInit /\ [][AnalyzeNext]_vars

\* ------------------------------------------------------- shared predicates
\* An entry's tokens agree with a played prefix at every shared index.
Agrees(entTokens, played) ==
  \A i \in 1..Len(entTokens) : i <= Len(played) => entTokens[i] = played[i]

\* The tokens of the entry an index reference names.
RefTokens(ref) == OPENINGS[ref.ent]._moves_norm

\* A list holds no element twice.
NoDuplicates(seq) == \A i, j \in 1..Len(seq) : i # j => seq[i] # seq[j]

\* The call of analyzeByFen has returned.
Returned == pc = "done"

\* The returned object is a canonical-key result.
CanonicalKeyResult == Returned /\ result.matched_fen # NoFen

\* The number of leading tokens of a list that apply in order.
RECURSIVE LeadingApplied(_, _)
LeadingApplied(b, toks) ==
  IF toks = << >> THEN 0
  ELSE IF TryMove(b, Head(toks)).ok
       THEN 1 + LeadingApplied(TryMove(b, Head(toks)).board, Tail(toks))
       ELSE 0

\* The step-by-step call returns what the call as a whole returns.
StepsAgreeWithCall ==
  Returned => result = analyzeByFen(tokens, max_plies, requireFenOnly, opts)

\* ---------------------------------------------------------------- claims
\* C1. Sequence-prefix rejection: with orderless matching not enabled, an
\* entry bestEntryForFen returns equals the played prefix at every index
\* below min(length of entry tokens, length of played prefix); an entry that
\* differs at a shared index is never returned, and when every entry under
\* the key differs the answer is none.
C1_PrefixRejection ==
  (call # Null /\ ~opts.orderless_matching) =>
    /\ call.best # Null =>
         /\ \E k \in 1..Len(IndexGet(FEN_TO_ENTRIES, call.canon)) :
              IndexGet(FEN_TO_ENTRIES, call.canon)[k].ent = call.best.ent
         /\ call.best.entTokens = OPENINGS[call.best.ent]._moves_norm
         /\ \A i \in 1..Min(Len(call.best.entTokens), Len(call.played)) :
              call.best.entTokens[i] = call.played[i]
    /\ (\A k \in 1..Len(IndexGet(FEN_TO_ENTRIES, call.canon)) :
          ~Agrees(RefTokens(IndexGet(FEN_TO_ENTRIES, call.canon)[k]), call.played))
         => call.best = Null

\* C1 witness: the scorer answers none at a key whose only index entries are
\* transpositions of the played prefix.
C1_Witness ==
  /\ call # Null /\ call.best = Null
  /\ IndexGet(FEN_TO_ENTRIES, call.canon) # << >>
  /\ \A k \in 1..Len(IndexGet(FEN_TO_ENTRIES, call.canon)) :
       ~Agrees(RefTokens(IndexGet(FEN_TO_ENTRIES, call.canon)[k]), call.played)

\* C2. Partial-game truncation, as claimed: when token k+1 is the first that
\* cannot be applied (k >= 0), the call returns the opening, opening_path and
\* plies_analyzed it returns for the first k tokens alone, and plies_analyzed
\* is at most k.
C2_TruncationClaim ==
  LET k == LeadingApplied(NewChess, tokens)
      alone == analyzeByFen(SubSeq(tokens, 1, k), max_plies, requireFenOnly, opts)
  IN (Returned /\ k < Len(tokens)) =>
       /\ result.opening = alone.opening
       /\ result.opening_path = alone.opening_path
       /\ result.plies_analyzed = alone.plies_analyzed
       /\ result.plies_analyzed <= k

\* C3. Replay produces a gap-free prefix: there are exactly
\* n = min(max_plies, number of leading tokens that apply) ply records and
\* per_ply records, record i has ply i and the first i input tokens, and a
\* step never removes or changes a record while the call runs.
C3_RecordsArePrefix ==
  LET n == Min(max_plies, LeadingApplied(NewChess, tokens))
  IN /\ Len(fenPerPly) <= n
     /\ \A i \in 1..Len(fenPerPly) :
          /\ fenPerPly[i].ply = i
          /\ fenPerPly[i].played_tokens = SubSeq(tokens, 1, i)
          /\ fenPerPly[i].san = tokens[i]
     /\ pc \in {"per_ply", "scan", "walk"} => Len(fenPerPly) = n
     /\ (Returned /\ tokens # << >>) => Len(fenPerPly) = n
     /\ \A i \in 1..Len(per_ply) :
          per_ply[i].ply = i /\ per_ply[i].sequence_tokens = SubSeq(tokens, 1, i)
     /\ pc \in {"scan", "walk"} => Len(per_ply) = n
     /\ (Returned /\ fenPerPly # << >>) => (Len(per_ply) = n /\ result.per_ply = per_ply)

C3_AppendOnly ==
  pc # "done" =>
    /\ Len(fenPerPly') >= Len(fenPerPly)
    /\ SubSeq(fenPerPly', 1, Len(fenPerPly)) = fenPerPly
    /\ (pc # "replay" => fenPerPly' = fenPerPly)

C3_GapFreePrefix == [](C3_RecordsArePrefix) /\ [][C3_AppendOnly]_vars

\* C3 witness: a game whose first plies were recorded and whose next token did
\* not apply, below the ply limit.
C3_Witness ==
  /\ Returned
  /\ Len(fenPerPly) >= 2
  /\ Len(fenPerPly) < Len(tokens)
  /\ Len(fenPerPly) < max_plies
  /\ Len(per_ply) = Len(fenPerPly)

\* The largest element of a non-empty set of numbers.
MaxOf(S) == CHOOSE x \in S : \A y \in S : y <= x

\* The plies whose key has an index entry that agrees with the played prefix.
PliesWithAgreeingEntry ==
  {i \in 1..Len(fenPerPly) :
     \E k \in 1..Len(IndexGet(FEN_TO_ENTRIES, fenPerPly[i].fen)) :
       Agrees(RefTokens(IndexGet(FEN_TO_ENTRIES, fenPerPly[i].fen)[k]),
              fenPerPly[i].played_tokens)}

\* The plies whose key is present in the position index.
PliesInIndex ==
  {i \in 1..Len(fenPerPly) : IndexGet(FEN_TO_ENTRIES, fenPerPly[i].fen) # << >>}

\* C4 as claimed. Anchor selection: whenever a replayed ply has a key present
\* in the position index, the result is a canonical-key result whose
\* matched_fen is the key of the deepest such ply, and the fallback or
\* no_fen_match outcome is returned only if no replayed ply's key is indexed.
C4_AnchorClaim ==
  (Returned /\ fenPerPly # << >>) =>
    IF PliesInIndex # {}
    THEN result.matched_fen = fenPerPly[MaxOf(PliesInIndex)].fen
    ELSE result.matched_fen = NoFen

\* C4 as amended. The anchor is the deepest replayed ply at whose key the
\* index holds an entry agreeing with the played prefix at every shared
\* index; deeper plies whose index entries are all transpositions are passed
\* over, and the fallback or no_fen_match outcome is returned exactly when
\* there is no such ply.
C4_AnchorIsDeepestAgreeing ==
  (Returned /\ fenPerPly # << >>) =>
    IF PliesWithAgreeingEntry # {}
    THEN /\ entryChoice # Null
         /\ entryChoice.ply = MaxOf(PliesWithAgreeingEntry)
         /\ result.matched_fen = fenPerPly[MaxOf(PliesWithAgreeingEntry)].fen
    ELSE entryChoice = Null /\ result.matched_fen = NoFen

\* C4 witness: an anchor below a deeper ply whose key is indexed only by
\* transpositions.
C4_Witness ==
  /\ CanonicalKeyResult
  /\ \E i \in PliesInIndex : i > entryChoice.ply /\ fenPerPly[i].fen # result.matched_fen

\* The scorer's answer at a level of the walk-up.
BestAtLevel(level) ==
  bestEntryForFen(level.fen, level.moves_leading, WholeGameTokens(fenPerPly),
                  ScorerOptions(opts))

\* C5. Walk-up path provenance: every per_level chosen entry and every raw
\* name merged into opening_path is the scorer's answer for that ply's key
\* and played prefix; no entry whose tokens mismatch the played prefix at a
\* shared index contributes.
C5_ProvenanceClaim ==
  CanonicalKeyResult =>
    /\ \A j \in 1..Len(result.per_level) :
         LET level == result.per_level[j]
         IN level.chosen # Null =>
              /\ BestAtLevel(level) # Null
              /\ level.chosen_raw = BestAtLevel(level).rawName
    /\ \A j \in 1..Len(pathList) :
         \E i \in 1..Len(result.per_level) :
           /\ BestAtLevel(result.per_level[i]) # Null
           /\ BestAtLevel(result.per_level[i]).rawName = pathList[j]

\* matchedPly: the ply the index records for the chosen entry under the
\* matched key, the anchor ply when it records none.
MatchedPlyOf(anchor) ==
  IF anchor.choice.entPly # NoPly THEN anchor.choice.entPly ELSE anchor.ply

FirstReach(ent, canon) ==
  IF \E i \in 1..Len(ent._fens_list) : ent._fens_list[i] = canon
  THEN CHOOSE i \in 1..Len(ent._fens_list) :
         ent._fens_list[i] = canon /\ \A j \in 1..(i - 1) : ent._fens_list[j] # canon
  ELSE 0

Bit(cond) == IF cond THEN 1 ELSE 0

Specificity(name) ==
  50 * Cardinality({i \in 1..Len(name) : name[i] = ":"})
  + 5 * Cardinality({i \in 1..Len(name) : name[i] = ","}) + Len(name)

\* The fraction of the entry's tokens that occur in the game is at least
\* thr / ThrDen; an entry without tokens has no such fraction.
SetFractionReached(entTokens, whole, thr) ==
  /\ Len(entTokens) > 0 /\ Len(whole) > 0
  /\ Cardinality({i \in 1..Len(entTokens) : \E j \in 1..Len(whole) : whole[j] = entTokens[i]})
       * ThrDen >= thr * Len(entTokens)

\* (samePly, reachesKey, commonPrefixLength, fullyMatched, -moveCount,
\*  specificity, setMatched)
DefaultTuple(ref, c) ==
  LET ent  == OPENINGS[ref.ent]
      toks == ent._moves_norm
  IN << Bit(FirstReach(ent, c.canon) # 0 /\ FirstReach(ent, c.canon) = Len(c.played)),
        Bit(FirstReach(ent, c.canon) # 0),
        Cardinality({k \in 1..Min(Len(toks), Len(c.played)) :
                       \A j \in 1..k : toks[j] = c.played[j]}),
        Bit(Len(toks) <= Len(c.played)),
        0 - Len(toks),
        Specificity(RawNameOf(ent)),
        Bit(SetFractionReached(toks, c.whole, c.options.setThreshold)) >>

LexGreater(T, U) ==
  \E i \in 1..Len(T) : T[i] > U[i] /\ \A j \in 1..(i - 1) : T[j] = U[j]

\* The places, in the index list of a call's key, of the candidates that pass
\* the sequence-prefix check, and the place of the returned one.
Passing(c) ==
  {k \in 1..Len(IndexGet(FEN_TO_ENTRIES, c.canon)) :
     Agrees(RefTokens(IndexGet(FEN_TO_ENTRIES, c.canon)[k]), c.played)}

PlaceOfBest(c) ==
  CHOOSE k \in 1..Len(IndexGet(FEN_TO_ENTRIES, c.canon)) :
    /\ IndexGet(FEN_TO_ENTRIES, c.canon)[k].ent = c.best.ent
    /\ IndexGet(FEN_TO_ENTRIES, c.canon)[k].ply = c.best.entPly

\* C7. Default ranking: with preferSetMatch off the returned entry is maximal
\* among the candidates passing the sequence-prefix check under the
\* lexicographic order on (samePly, reachesKey, commonPrefixLength,
\* fullyMatched, -moveCount, specificity, setMatched), and among candidates
\* with equal tuples the one listed first under the key is returned.
C7_DefaultRanking ==
  (call # Null /\ ~call.options.preferSetMatch) =>
    LET refs == IndexGet(FEN_TO_ENTRIES, call.canon)
    IN /\ (call.best = Null) = (Passing(call) = {})
       /\ call.best # Null =>
            /\ PlaceOfBest(call) \in Passing(call)
            /\ \A k \in Passing(call) :
                 /\ ~LexGreater(DefaultTuple(refs[k], call), DefaultTuple(refs[PlaceOfBest(call)], call))
                 /\ DefaultTuple(refs[k], call) = DefaultTuple(refs[PlaceOfBest(call)], call)
                      => PlaceOfBest(call) <= k

\* C7 witness: the ranking decided: the returned candidate is not the first
\* one listed under the key, and another passing candidate ties with none.
C7_Witness ==
  /\ call # Null /\ ~call.options.preferSetMatch /\ call.best # Null
  /\ Cardinality(Passing(call)) >= 2
  /\ \E k \in Passing(call) : k < PlaceOfBest(call)

\* C8. Set-match promotion: the returned entry is flagged setMatched exactly
\* when the fraction of its tokens occurring in the whole replayed game is at
\* least the threshold, and with preferSetMatch on a set-matched candidate is
\* returned in preference to every candidate that is not set-matched.
C8_SetMatchPromotion ==
  (call # Null /\ call.best # Null) =>
    LET refs == IndexGet(FEN_TO_ENTRIES, call.canon)
        SetMatched(k) == SetFractionReached(RefTokens(refs[k]), call.whole,
                                            call.options.setThreshold)
    IN /\ (call.best.setMatched = 1) = SetMatched(PlaceOfBest(call))
       /\ call.best.setMatched \in {0, 1}
       /\ (call.options.preferSetMatch /\ \E k \in Passing(call) : SetMatched(k))
            => call.best.setMatched = 1

\* C8 witness: with preferSetMatch on a set-matched candidate is returned
\* although a candidate that is not set-matched ranks above it by default.
C8_Witness ==
  /\ call # Null /\ call.best # Null /\ call.options.preferSetMatch
  /\ call.best.setMatched = 1
  /\ \E k \in Passing(call) :
       LET refs == IndexGet(FEN_TO_ENTRIES, call.canon)
       IN /\ ~SetFractionReached(RefTokens(refs[k]), call.whole, call.options.setThreshold)
          /\ LexGreater(DefaultTuple(refs[k], call), DefaultTuple(refs[PlaceOfBest(call)], call))

\* C9. Path Builder ordering, as claimed: for a name with a colon the output
\* is every comma-separated fragment of the cleaned text after the colon, in
\* order, then every comma-separated fragment of the text before the colon,
\* in order; for a name without a colon the comma-separated fragments in
\* order; and the first-move label comes last unless it occurs earlier.
C9_PathOrderClaim ==
  LET s      == Trim(pbRawName)
      colon  == IndexOf(s, ":", 1)
      named  == IF colon # 0
                THEN CommaParts(CleanAfter(SubSeq(s, colon + 1, Len(s))))
                     \o CommaParts(SubSeq(s, 1, colon - 1))
                ELSE CommaParts(s)
      frags  == PushAllNew(<< >>, named)
      label  == CanonLabel(pbFirstToken)
  IN pc = "built" =>
       pbPath = IF label # NoText /\ ~Includes(frags, label) THEN Append(frags, label) ELSE frags

\* The fragments a level of the walk-up offers to the merged path.
LevelFragments(level) ==
  IF level.chosen_raw = NoText THEN << >>
  ELSE buildOpeningPathFromRaw(level.chosen_raw, FirstTokenOf(tokens))

\* The plies of the levels whose fragments hold x.
PliesOffering(x) ==
  {result.per_level[i].ply : i \in {j \in 1..Len(result.per_level) :
                                      Includes(LevelFragments(result.per_level[j]), x)}}

\* The place of x in the fragments of the level at a ply.
PlaceAt(x, ply) ==
  LET level == result.per_level[CHOOSE i \in 1..Len(result.per_level) :
                                  result.per_level[i].ply = ply]
  IN CHOOSE k \in 1..Len(LevelFragments(level)) : LevelFragments(level)[k] = x

\* C10. Paths never hold duplicates and are order-stable: no fragment occurs
\* twice in a per_ply opening_path (an output of the path builder) or in the
\* returned opening_path; the merged path of a walk-up result holds exactly
\* the fragments of the levels' names, those of deeper plies before those
\* first introduced by shallower plies, each name's fragments in the path
\* builder's order.
C10_PathsDeduplicated ==
  Returned =>
    /\ NoDuplicates(result.opening_path)
    /\ \A i \in 1..Len(result.per_ply) : NoDuplicates(result.per_ply[i].opening_path)
    /\ (CanonicalKeyResult /\ pathList # << >>) =>
         LET merged == result.opening_path
         IN /\ \A i \in 1..Len(merged) : PliesOffering(merged[i]) # {}
            /\ \A j \in 1..Len(result.per_level) :
                 \A k \in 1..Len(LevelFragments(result.per_level[j])) :
                   Includes(merged, LevelFragments(result.per_level[j])[k])
            /\ \A i, j \in 1..Len(merged) :
                 i < j =>
                   LET di == MaxOf(PliesOffering(merged[i]))
                       dj == MaxOf(PliesOffering(merged[j]))
                   IN /\ di >= dj
                      /\ di = dj => PlaceAt(merged[i], di) < PlaceAt(merged[j], dj)

\* C10 witness: a merged path of fragments first offered at different plies,
\* with a fragment that two levels with different names both offer.
C10_Witness ==
  /\ CanonicalKeyResult /\ pathList # << >>
  /\ Len(result.opening_path) >= 3
  /\ \E i, j \in 1..Len(result.opening_path) :
       MaxOf(PliesOffering(result.opening_path[i])) > MaxOf(PliesOffering(result.opening_path[j]))
  /\ \E a, b \in 1..Len(result.per_level) :
       /\ result.per_level[a].chosen_raw # result.per_level[b].chosen_raw
       /\ \E x \in {result.opening_path[i] : i \in 1..Len(result.opening_path)} :
            /\ Includes(LevelFragments(result.per_level[a]), x)
            /\ Includes(LevelFragments(result.per_level[b]), x)

\* C11. Walk-up monotonicity: when the first token of the game is a key of
\* the popular-first-move table and the call returns a canonical-key result,
\* opening_path holds the table's first label for that token, whatever the
\* anchor and the shallower levels matched.
C11_FirstMoveLabelKept ==
  (CanonicalKeyResult /\ CanonLabel(FirstTokenOf(tokens)) # NoText) =>
    Includes(result.opening_path, CanonLabel(FirstTokenOf(tokens)))

\* C11 witness: a canonical-key result none of whose levels chose an entry
\* named after the first-move label; the label is in the path all the same.
C11_Witness ==
  /\ CanonicalKeyResult
  /\ CanonLabel(FirstTokenOf(tokens)) # NoText
  /\ \A j \in 1..Len(result.per_level) :
       result.per_level[j].chosen_raw # CanonLabel(FirstTokenOf(tokens))
  /\ Len(result.opening_path) >= 2

\* A per_ply record that reports no match.
NoMatchAt(rec) == rec.opening = NoText /\ rec.eco = NoText /\ rec.opening_path = << >>

\* A per_ply record that carries the first-move label and nothing else.
LabelAt(rec, label) ==
  rec.opening = label /\ rec.eco = NoText /\ rec.opening_path = << label >>

\* C12 as claimed. Empty catalogue: a game that replays at least one ply
\* returns with the primary opening absent and an empty opening_path, and
\* every per_ply record reports no match, ply 1 included.
C12_EmptyCatalogueClaim ==
  (Returned /\ OPENINGS = << >> /\ fenPerPly # << >>) =>
    /\ result.opening = Null
    /\ result.opening_path = << >>
    /\ \A i \in 1..Len(result.per_ply) : NoMatchAt(result.per_ply[i])

\* C12 as amended. Empty catalogue: a game that replays at least one ply
\* returns with the primary opening absent, an empty opening_path and no
\* matched key; every per_ply record after ply 1 reports no match; the record
\* of ply 1 reports no match unless the first token is a key of the
\* popular-first-move table, and then it carries that table's first label.
C12_EmptyCatalogueNoMatch ==
  (Returned /\ OPENINGS = << >> /\ fenPerPly # << >>) =>
    /\ result.opening = Null
    /\ result.opening_path = << >>
    /\ result.matched_fen = NoFen
    /\ Len(result.per_ply) = Len(fenPerPly)
    /\ \A i \in 2..Len(result.per_ply) : NoMatchAt(result.per_ply[i])
    /\ IF CanonLabel(tokens[1]) # NoText
       THEN LabelAt(result.per_ply[1], CanonLabel(tokens[1]))
       ELSE NoMatchAt(result.per_ply[1])

\* C12 witness: an empty catalogue and a game of several plies whose first
\* token is in the table; ply 1 has the label, the later plies nothing.
C12_Witness ==
  /\ Returned /\ OPENINGS = << >> /\ Len(fenPerPly) >= 2
  /\ Len(result.per_ply) = Len(fenPerPly)
  /\ result.per_ply[1].opening = CanonLabel(tokens[1])
  /\ CanonLabel(tokens[1]) # NoText
  /\ result.opening = Null

\* A per_ply record taken from a catalogue entry and a raw name: the path is
\* the raw name's path, the opening its first fragment (the entry's name or
\* key when the path is empty), the eco the entry's.
TakenFrom(rec, ent, raw) ==
  LET chosenPath == buildOpeningPathFromRaw(raw, FirstTokenOf(tokens))
  IN /\ rec.opening_path = chosenPath
     /\ rec.eco = ent.eco
     /\ rec.opening = IF chosenPath # << >> THEN chosenPath[1]
                      ELSE IF ent.name # NoText THEN ent.name ELSE ent._key

\* The link of the fallback chain that decides the per_ply record of ply i:
\* the first of scorer, sequence, label, none that applies.
ChainLink(i) ==
  LET best == bestEntryForFen(fenPerPly[i].fen, fenPerPly[i].played_tokens,
                              WholeGameTokens(fenPerPly), ScorerOptions(opts))
      seq  == bestSequenceMatchForTokens(fenPerPly[i].played_tokens)
  IN IF best # Null THEN "scorer"
     ELSE IF seq # Null THEN "sequence"
     ELSE IF i = 1 /\ CanonLabel(tokens[1]) # NoText THEN "label"
     ELSE "none"

\* C13. Per-ply fallback chain: the per_ply record of a replayed ply is taken
\* from the scorer's entry when there is one; else from the sequence-prefix
\* fallback's entry; else, at ply 1 with the first token in the popular table,
\* it is the label alone with no eco; else it reports no match.
C13_FallbackChain ==
  \A i \in 1..Len(per_ply) :
    LET rec  == per_ply[i]
        best == bestEntryForFen(fenPerPly[i].fen, fenPerPly[i].played_tokens,
                                WholeGameTokens(fenPerPly), ScorerOptions(opts))
        seq  == bestSequenceMatchForTokens(fenPerPly[i].played_tokens)
    IN /\ rec.ply = i
       /\ CASE ChainLink(i) = "scorer"   -> TakenFrom(rec, OPENINGS[best.ent], best.rawName)
            [] ChainLink(i) = "sequence" -> TakenFrom(rec, OPENINGS[seq.ent],
                                                      RawNameOf(OPENINGS[seq.ent]))
            [] ChainLink(i) = "label"    -> LabelAt(rec, CanonLabel(tokens[1]))
            [] OTHER                     -> NoMatchAt(rec)

\* C13 witness: one game whose plies are decided by three different links: an
\* entry at one ply, the label at ply 1, nothing at another ply.
C13_Witness ==
  /\ Returned /\ Len(per_ply) = 3
  /\ ChainLink(1) = "label"
  /\ \E i, j \in 2..3 : ChainLink(i) = "scorer" /\ ChainLink(j) = "none"

\* The sequence link never decides: an entry that has the played prefix as
\* its prefix is indexed under the ply's key and passes the prefix check.
SequenceLinkUnused == \A i \in 1..Len(per_ply) : ChainLink(i) # "sequence"

\* A piece that is a move number and nothing else: digits, then dots.
IsMoveNumber(t) ==
  LET d == LeadingIn(t, Digits, Len(t))
  IN d > 0 /\ d < Len(t) /\ \A k \in (d + 1)..Len(t) : t[k] = "."

\* The first place at or after i of a piece that holds c, past the end when
\* there is none.
ClosedAt(text, i, c) ==
  IF \E j \in i..Len(text) : Includes(text[j], c)
  THEN CHOOSE j \in i..Len(text) :
         Includes(text[j], c) /\ \A k \in i..(j - 1) : ~Includes(text[k], c)
  ELSE Len(text) + 1

\* A text of result markers, comments, variations and move numbers only,
\* read from piece i on.
RECURSIVE OnlyNoise(_, _)
OnlyNoise(text, i) ==
  IF i > Len(text) THEN TRUE
  ELSE IF text[i] \in Outcomes \/ IsMoveNumber(text[i]) THEN OnlyNoise(text, i + 1)
  ELSE IF StartsWith(text[i], "{") THEN OnlyNoise(text, ClosedAt(text, i, "}") + 1)
  ELSE IF StartsWith(text[i], "(") THEN OnlyNoise(text, ClosedAt(text, i, ")") + 1)
  ELSE FALSE

\* C14. No moves parsed, as claimed: for a text that is empty or holds only
\* result markers, comments, variations and move numbers, analyzeByFen and
\* analyzeBySequence return the 'No moves parsed' marker with an empty
\* opening_path, plies_analyzed 0 and no per-ply records.
C14_NoMovesClaim ==
  (pc = "answered" /\ OnlyNoise(pgnText, 1)) =>
    /\ result = NoMovesParsed
    /\ seqResult = NoMovesParsed

\* The call returned without an anchor: no ply replayed, or the anchor scan
\* found no ply at which the scorer returns an entry.
ReturnedWithoutAnchor == Returned /\ entryChoice = Null

\* An explicit no-match result with one of the given error markers.
ExplicitNoMatch(markers) ==
  /\ result.opening = Null
  /\ result.opening_path = << >>
  /\ result.matched_fen = NoFen
  /\ result.error \in markers

\* The result carries the sequence classifier's opening and opening_path.
SequenceClassification ==
  /\ result.opening = analyzeBySequence(tokens, max_plies).opening
  /\ result.opening_path = analyzeBySequence(tokens, max_plies).opening_path

\* C15 as claimed. Position-only mode: without an anchor, the case where no
\* ply replays at all included, a position-only call returns an explicit
\* no-match result marked 'no_fen_match' or 'no_fens_parsed'; a call that is
\* not position-only returns the sequence classifier's opening and path.
C15_PositionOnlyClaim ==
  ReturnedWithoutAnchor =>
    IF requireFenOnly
    THEN ExplicitNoMatch({"no_fen_match", "no_fens_parsed"})
    ELSE SequenceClassification

\* C15 as amended. As claimed, for a text with at least one move token: the
\* marker is 'no_fens_parsed' when no ply replays and 'no_fen_match' when
\* some ply replays; a text without any token returns the 'No moves parsed'
\* marker in either mode.
C15_PositionOnlyNoMatch ==
  ReturnedWithoutAnchor =>
    IF tokens = << >> THEN result = NoMovesParsed
    ELSE IF requireFenOnly
    THEN /\ ExplicitNoMatch({IF fenPerPly = << >> THEN "no_fens_parsed" ELSE "no_fen_match"})
         /\ result.per_level = << >>
    ELSE /\ SequenceClassification
         /\ result.matched_fen = NoFen

\* C15 witness: a position-only call without an anchor, for a game that
\* replays and that the sequence classifier would have given an opening.
C15_Witness ==
  /\ ReturnedWithoutAnchor /\ requireFenOnly
  /\ fenPerPly # << >>
  /\ analyzeBySequence(tokens, max_plies).opening # Null
  /\ result.opening = Null /\ result.error = "no_fen_match"

\* No step of a query adds, removes or changes an entry of the catalogue list
\* or of the position index.
CatalogueUntouched == OPENINGS' = OPENINGS /\ FEN_TO_ENTRIES' = FEN_TO_ENTRIES

\* C16. Read-only shared index: no step of any query changes the catalogue
\* list or the position index, and whatever queries came before, a query
\* returns what it returns when run alone on the loaded catalogue.
C16_ReadOnlyIndex == [][CatalogueUntouched]_vars /\ [](StepsAgreeWithCall)

\* C16 witness: a query that read several index lists (an anchor and a
\* walk-up over more than one level, under a key with more than one
\* reference) has returned.
C16_Witness ==
  /\ CanonicalKeyResult
  /\ Len(result.per_level) >= 2
  /\ Len(IndexGet(FEN_TO_ENTRIES, result.matched_fen)) >= 2

\* C17. Catalogue load never fatal, as claimed: whatever the state of the
\* catalogue file, the loader returns a catalogue list and an index and never
\* throws; file absent, unreadable or not valid JSON gives the empty
\* catalogue.
C17_LoadNeverFatalClaim ==
  loadStatus # "not_called" =>
    /\ loadStatus = "returned"
    /\ ecoSource.kind # "json" => (OPENINGS = << >> /\ FEN_TO_ENTRIES = << >>)

\* The keys an entry's own move list reaches, ply by ply, replayed afresh.
OwnKeys(ent) == FensFrom(NewChess, ent._moves_norm)

\* The smallest ply at which an entry's own move list reaches K.
SmallestPly(ent, K) ==
  CHOOSE i \in 1..Len(OwnKeys(ent)) :
    OwnKeys(ent)[i] = K /\ \A j \in 1..(i - 1) : OwnKeys(ent)[j] # K

\* C19. Index consistency after load: a pair (entry, ply) under key K with a
\* ply has K among the keys the entry's own moves reach and ply the smallest
\* ply reaching K; a pair without a ply is under K only when K is the
\* entry's own declared position; no pair is stored twice under one key.
C19_IndexConsistent ==
  loadStatus = "returned" =>
    \A K \in DOMAIN FEN_TO_ENTRIES :
      LET refs == FEN_TO_ENTRIES[K]
      IN /\ \A i \in 1..Len(refs) :
              /\ refs[i].ent \in 1..Len(OPENINGS)
              /\ IF refs[i].ply # NoPly
                 THEN /\ \E j \in 1..Len(OwnKeys(OPENINGS[refs[i].ent])) :
                           OwnKeys(OPENINGS[refs[i].ent])[j] = K
                      /\ refs[i].ply = SmallestPly(OPENINGS[refs[i].ent], K)
                 ELSE OPENINGS[refs[i].ent]._fen = K
         /\ \A i, j \in 1..Len(refs) : i # j => refs[i] # refs[j]

\* C19 witness: an entry whose moves reach a key twice is stored under it
\* once, with the first ply, and a key holds an entry both with a ply and as
\* its declared position.
C19_Witness ==
  /\ loadStatus = "returned"
  /\ \E e \in 1..Len(OPENINGS) :
       \E i, j \in 1..Len(OwnKeys(OPENINGS[e])) :
         /\ i < j /\ OwnKeys(OPENINGS[e])[i] = OwnKeys(OPENINGS[e])[j]
         /\ \E k \in 1..Len(FEN_TO_ENTRIES[OwnKeys(OPENINGS[e])[i]]) :
              FEN_TO_ENTRIES[OwnKeys(OPENINGS[e])[i]][k] = [ent |-> e, ply |-> i]
  /\ \E K \in DOMAIN FEN_TO_ENTRIES :
       \E a, b \in 1..Len(FEN_TO_ENTRIES[K]) :
         /\ FEN_TO_ENTRIES[K][a].ent = FEN_TO_ENTRIES[K][b].ent
         /\ FEN_TO_ENTRIES[K][a].ply = NoPly /\ FEN_TO_ENTRIES[K][b].ply # NoPly

\* The entries whose token list has the played prefix as its prefix.
HavePrefix(played) ==
  {e \in 1..Len(OPENINGS) :
     /\ Len(OPENINGS[e]._moves_norm) >= Len(played)
     /\ SubSeq(OPENINGS[e]._moves_norm, 1, Len(played)) = played}

\* How many entries of S carry the raw name of entry e, and the first of them.
SharedBy(S, e) ==
  Cardinality({x \in S : RawNameOf(OPENINGS[x]) = RawNameOf(OPENINGS[e])})

FirstNamed(S, e) ==
  CHOOSE x \in S :
    /\ RawNameOf(OPENINGS[x]) = RawNameOf(OPENINGS[e])
    /\ \A y \in S : RawNameOf(OPENINGS[y]) = RawNameOf(OPENINGS[e]) => x <= y

SpecificityOf(e) == specificityScore(RawNameOf(OPENINGS[e]))

\* C20. Sequence-prefix fallback selection: the matcher returns an entry only
\* if the played prefix is a prefix of the entry's tokens; the returned
\* entry's raw name has the highest specificity among the names of such
\* entries, then is shared by the most such entries, then is met first in
\* catalogue order; with no such entry the matcher returns none.
C20_SequenceSelection ==
  pc = "matched" =>
    LET S == HavePrefix(tokens)
    IN /\ S = {} => seqAnswer = Null
       /\ seqAnswer # Null =>
            LET b == seqAnswer.ent
            IN /\ b \in S
               /\ \A e \in S : SpecificityOf(e) <= SpecificityOf(b)
               /\ \A e \in S : SpecificityOf(e) = SpecificityOf(b)
                                => SharedBy(S, e) <= SharedBy(S, b)
               /\ \A e \in S : (SpecificityOf(e) = SpecificityOf(b)
                                 /\ SharedBy(S, e) = SharedBy(S, b))
                                => FirstNamed(S, b) <= FirstNamed(S, e)

\* C20 witness: the returned entry's name ties on specificity with a name met
\* earlier in the catalogue and wins by being shared by more entries.
C20_Witness ==
  /\ pc = "matched" /\ seqAnswer # Null
  /\ \E e \in HavePrefix(tokens) :
       /\ SpecificityOf(e) = SpecificityOf(seqAnswer.ent)
       /\ e < FirstNamed(HavePrefix(tokens), seqAnswer.ent)
       /\ SharedBy(HavePrefix(tokens), e) < SharedBy(HavePrefix(tokens), seqAnswer.ent)

\* The call fell back to the whole-game sequence classifier: it was given
\* moves, ran outside position-only mode and matched no position.
FellBackToSequence ==
  /\ tokens # << >> /\ ~requireFenOnly
  /\ analyzeByFen(tokens, max_plies, requireFenOnly, opts).matched_fen = NoFen

\* No entry naming the system shares a key with a replayed ply of the game.
NoSystemEntry ==
  \A e \in 1..Len(OPENINGS) :
    Includes(RawNameOf(OPENINGS[e]), SystemLabel[1]) =>
      \A i \in 1..Len(result.per_ply) :
        result.per_ply[i].matched_fen \notin KeysOfEntry(OPENINGS[e])

C21_DepthBounds ==
  (Returned /\ result.matched_fen # NoFen) =>
    /\ 1 <= result.plies_analyzed
    /\ \E i \in 1..Len(fenPerPly) :
         fenPerPly[i].fen = result.matched_fen /\ result.plies_analyzed <= i
    /\ Len(fenPerPly) <= max_plies
    /\ result.plies_analyzed <= Len(fenPerPly)
    /\ Len(result.per_level) = result.plies_analyzed
    /\ \A k \in 1..Len(result.per_level) :
         result.per_level[k].ply = result.plies_analyzed - k + 1

\* C21 witness: a canonical-key result of a game cut by the ply limit, with
\* a walk-up of several levels.
C21_Witness ==
  /\ Returned /\ result.matched_fen # NoFen
  /\ Len(tokens) > max_plies /\ Len(fenPerPly) = max_plies
  /\ result.plies_analyzed >= 2
  /\ Len(result.per_level) >= 2

\* The request's options with orderless_matching the other way.
OtherOrderless == [opts EXCEPT !.orderless_matching = ~opts.orderless_matching]

\* The ply records of the request's game.
ReplayedRecords == ReplayAll(<< >>, NewChess, tokens, max_plies)

\* The scorer, called at a ply record with the options o, returns no entry
\* that differs from the played prefix at a shared index.
RejectsTransposed(rec, o) ==
  LET best == bestEntryForFen(rec.fen, rec.played_tokens, WholeGameTokens(ReplayedRecords),
                              ScorerOptions(o))
  IN best # Null => Agrees(best.entTokens, rec.played_tokens)

====
